---- MODULE Spec2Model ----
(***************************************************************************)
(* A model of pyrant: the lazy Query builder of pyrant/query.py, the       *)
(* search command of pyrant/protocol.py it evaluates through, and the      *)
(* socket layer of pyrant/protocol.py.                                     *)
(*                                                                         *)
(* Python values are encoded as follows.                                   *)
(*   None            <<>>            an optional value x is <<x>>          *)
(*   list objects    an id into a heap (condLists, colLists, msLists), so  *)
(*                   that two references to one list are one id            *)
(*   str             a TLA+ string; where the code looks into a string     *)
(*                   (startswith, split) a sequence of its pieces          *)
(***************************************************************************)
EXTENDS Integers, Sequences, FiniteSets, TLC

VARIABLES
    queries,      \* the Query objects created so far, in creation order
    condLists,    \* heap of lists of Condition objects
    colLists,     \* heap of lists of column names
    msLists,      \* heap of lists of condition lists (metasearch branches)
    last,         \* the last operation: its input, its outcome and the calls
                  \* it made on the protocol object
    db,           \* the server: the keys of its records, in its own order
    cursor,       \* the server: how many keys its iterator has passed, or
                  \* None before the first iterinit
    inbuf,        \* the socket: bytes the server sent and the client has
                  \* not read yet
    cmd,          \* the last command on the socket: the request written, the
                  \* status the server answered, the outcome, the bytes read
    gen,          \* the generator object of Tyrant.iterkeys
    iter,         \* history: the keys iternext returned since the last
                  \* iterinit, while no record was added or removed
    call,         \* the last call of a function of the library on its own:
                  \* its name, its arguments and what it returned or raised
    rx,           \* a call of _TyrantSocket.recv in progress: the bytes on
                  \* their way, the bytes gathered and the reads made
    it            \* a loop "for item in q" in progress: the Query, the matches
                  \* on the server, the index, the items and the requests

queryVars == <<queries, condLists, colLists, msLists, last>>
sockVars == <<db, cursor, inbuf, cmd, gen, iter>>
pureVars == <<call, rx, it>>
vars == <<queries, condLists, colLists, msLists, last, db, cursor, inbuf, cmd, gen,
          iter, call, rx, it>>

----------------------------------------------------------------------------
(* Bounds of the model. *)

MaxQueries == 3
MaxEvalQueries == 2
MaxIdx == 2
MaxKeys == 1
MaxDb == 2
MaxStatus == 8
MaxRecv == 4
MaxArgs == 3
MaxStream == 5
MaxMatches == 3
MaxStr == 2
MaxInt == 2
MaxFrac == 3
MaxValues == 4
MaxChunk == 3

----------------------------------------------------------------------------
(* Python's None, optional values and truth values. *)

None == <<>>
Some(x) == <<x>>
Val(o) == o[1]

\* bool(x) of an optional integer: None and 0 are false
TruthyInt(o) == o /= None /\ Val(o) /= 0

\* the values of a sequence
Range(s) == {s[i] : i \in 1..Len(s)}

----------------------------------------------------------------------------
(* Protocol constants, pyrant/protocol.py. *)

TDBMSUNION == 0
TDBMSISECT == 1
TDBMSDIFF == 2

RDBQOSTRASC == 0
RDBQOSTRDESC == 1
RDBQONUMASC == 2
RDBQONUMDESC == 3

----------------------------------------------------------------------------
(* class Ordering, pyrant/query.py. *)

ASC == 0
DESC == 1
ALPHABETIC == 0
NUMERIC == 1

\* Ordering.__init__(name, direction, numeric)
OrderingInit(name, direction, numeric) ==
    [name      |-> name,
     direction |-> IF TruthyInt(direction) THEN Val(direction) ELSE ASC,
     method    |-> IF numeric THEN NUMERIC ELSE ALPHABETIC]

\* Ordering.__nonzero__: bool(self.name)
OrderingNonzero(o) == o.name /= None /\ Val(o.name) /= ""

\* a map that reads the direction where the method belongs
OrderingTypeDirectionFirst(o) ==
    IF o.method = NUMERIC
    THEN (IF o.direction = DESC THEN RDBQONUMDESC ELSE RDBQOSTRDESC)
    ELSE (IF o.direction = DESC THEN RDBQONUMASC ELSE RDBQOSTRASC)

\* Ordering.PROTOCOL_MAP and Ordering.type
OrderingType(o) ==
    IF o.direction = DESC
    THEN (IF o.method = NUMERIC THEN RDBQONUMDESC ELSE RDBQOSTRDESC)
    ELSE (IF o.method = NUMERIC THEN RDBQONUMASC ELSE RDBQOSTRASC)

----------------------------------------------------------------------------
(* The heap of list objects.  H is a record of the three heaps; allocation  *)
(* appends, so the id of a new list is the new length of its heap.          *)

Heap == [cond |-> condLists, col |-> colLists, ms |-> msLists]

AllocCond(H, v) == [H EXCEPT !.cond = Append(@, v)]
AllocCol(H, v) == [H EXCEPT !.col = Append(@, v)]
AllocMs(H, v) == [H EXCEPT !.ms = Append(@, v)]

\* bool(x) of an optional list: None and the empty list are false
TruthyCondList(H, o) == o /= None /\ Len(H.cond[Val(o)]) > 0
TruthyColList(H, o) == o /= None /\ Len(H.col[Val(o)]) > 0
TruthyMsList(H, o) == o /= None /\ Len(H.ms[Val(o)]) > 0

----------------------------------------------------------------------------
(* class Condition, pyrant/query.py.  A Condition is a value here: every    *)
(* place that stores one copies it first (copy.copy).                       *)

\* Condition._parse_lookup: key is the keyword split at "__"
ParseLookup(key) ==
    IF Len(key) > 1
    THEN [name |-> key[1], lookup |-> Tail(key)]
    ELSE [name |-> key[1], lookup |-> <<"is">>]

\* Condition.__init__(lookup, expr, negate=False)
ConditionInit(key, expr, negate) ==
    [name   |-> ParseLookup(key).name,
     lookup |-> ParseLookup(key).lookup,
     expr   |-> expr,
     negate |-> negate]

\* Condition._clone: copy.copy(self)
ConditionClone(c) == c

----------------------------------------------------------------------------
(* class Query, pyrant/query.py: construction and cloning. *)

\* a constructor that runs its search at once
QueryInitEager(H, literal, conditions, columns, ms_type, ms_conditions) ==
    [q |-> [literal       |-> literal,
            conditions    |-> IF TruthyCondList(H, conditions) THEN Val(conditions)
                              ELSE Len(H.cond) + 1,
            ordering      |-> OrderingInit(None, None, FALSE),
            columns       |-> columns,
            ms_type       |-> ms_type,
            ms_conditions |-> ms_conditions],
     H |-> IF TruthyCondList(H, conditions) THEN H ELSE AllocCond(H, <<>>),
     searchCalls |-> 1,
     sent |-> 1]

\* Query.__init__(proto, db_type, literal, conditions, columns, ms_type,
\* ms_conditions): the new object q, the heap H after it, and the calls it
\* makes on proto (it stores proto and calls nothing on it)
QueryInit(H, literal, conditions, columns, ms_type, ms_conditions) ==
    [q |-> [literal       |-> literal,
            conditions    |-> IF TruthyCondList(H, conditions) THEN Val(conditions)
                              ELSE Len(H.cond) + 1,
            ordering      |-> OrderingInit(None, None, FALSE),
            columns       |-> columns,
            ms_type       |-> ms_type,
            ms_conditions |-> ms_conditions],
     H |-> IF TruthyCondList(H, conditions) THEN H ELSE AllocCond(H, <<>>),
     searchCalls |-> 0,
     sent |-> 0]

\* the list [c._clone() for c in conds]
CloneConds(conds) == [i \in 1..Len(conds) |-> ConditionClone(conds[i])]

\* a clone that hands the receiver's own list to the new Query
CloneConditionsShared(self, H) ==
    [H |-> H, id |-> self.conditions]

\* the conditions argument _clone passes to Query.__init__: a new list
CloneConditions(self, H) ==
    [H  |-> AllocCond(H, CloneConds(H.cond[self.conditions])),
     id |-> Len(H.cond) + 1]

\* the ms_conditions argument of _clone: new lists of cloned conditions in a
\* new outer list, or nothing when the receiver has no branch.  H0 is the
\* heap the receiver is read from, H the heap allocated in.
CloneBranches(self, H0, H) ==
    IF TruthyMsList(H0, self.ms_conditions)
    THEN [H  |-> AllocMs([H EXCEPT !.cond =
                             @ \o [j \in 1..Len(H0.ms[Val(self.ms_conditions)]) |->
                                     CloneConds(H0.cond[H0.ms[Val(self.ms_conditions)][j]])]],
                         [j \in 1..Len(H0.ms[Val(self.ms_conditions)]) |->
                             Len(H.cond) + j]),
          id |-> Some(Len(H.ms) + 1)]
    ELSE [H |-> H, id |-> None]

\* the columns argument of _clone: self._columns[:], or nothing
CloneColumns(self, H0, H) ==
    IF TruthyColList(H0, self.columns)
    THEN [H |-> AllocCol(H, H0.col[Val(self.columns)]), id |-> Some(Len(H.col) + 1)]
    ELSE [H |-> H, id |-> None]

\* _clone, given its conditions argument c and its ms_conditions argument m
QCloneWith2(self, H0, c, m) ==
    QueryInit(CloneColumns(self, H0, m.H).H, self.literal, Some(c.id),
              CloneColumns(self, H0, m.H).id, self.ms_type, m.id)

QCloneWith(self, H0, c) == QCloneWith2(self, H0, c, CloneBranches(self, H0, c.H))

\* Query._clone
QClone(self, H) == QCloneWith(self, H, CloneConditions(self, H))

----------------------------------------------------------------------------
(* Expressions of conditions.  An expression is [t, v]: t is "int", "str",  *)
(* "bool" or "list" and v the value (for a list, the sequence of its        *)
(* elements).                                                               *)

IntE(n) == [t |-> "int", v |-> n]
StrE(s) == [t |-> "str", v |-> s]
BoolE(b) == [t |-> "bool", v |-> b]
ListE(s) == [t |-> "list", v |-> s]

\* hasattr(value, '__iter__'): lists and tuples, not strings (Python 2)
HasIter(e) == e.t = "list"
\* isinstance(value, bool)
IsBool(e) == e.t = "bool"
\* isinstance(value, (int, float)): bool is a subclass of int
IsNumber(e) == e.t \in {"int", "bool"}
\* isinstance(value, basestring)
IsString(e) == e.t = "str"
\* bool(value)
TruthyE(e) ==
    CASE e.t = "int"  -> e.v /= 0
      [] e.t = "str"  -> e.v /= ""
      [] e.t = "bool" -> e.v
      [] e.t = "list" -> Len(e.v) > 0

\* unicode(x) and '%s' % x of a scalar
Unicode(e) ==
    CASE e.t = "int"  -> ToString(e.v)
      [] e.t = "str"  -> e.v
      [] e.t = "bool" -> IF e.v THEN "True" ELSE "False"
      [] e.t = "list" -> "[...]"

\* a join that puts a bare comma between the parts
RECURSIVE JoinBareComma(_, _)
JoinBareComma(sep, parts) ==
    IF Len(parts) = 0 THEN ""
    ELSE IF Len(parts) = 1 THEN parts[1]
    ELSE parts[1] \o "," \o JoinBareComma(sep, Tail(parts))

\* sep.join(parts) of a sequence of strings
RECURSIVE Join(_, _)
Join(sep, parts) ==
    IF Len(parts) = 0 THEN ""
    ELSE IF Len(parts) = 1 THEN parts[1]
    ELSE parts[1] \o sep \o Join(sep, Tail(parts))

\* utils.from_python(value): True is stored as 1, False as ''
FromPython(e) ==
    IF e.t = "bool" THEN (IF e.v THEN IntE(1) ELSE StrE("")) ELSE e

----------------------------------------------------------------------------
(* Query conditions of the protocol, pyrant/protocol.py. *)

RDBQCSTREQ == 0
RDBQCSTRINC == 1
RDBQCSTRBW == 2
RDBQCSTREW == 3
RDBQCSTRAND == 4
RDBQCSTROR == 5
RDBQCSTROREQ == 6
RDBQCSTRRX == 7
RDBQCNUMEQ == 8
RDBQCNUMGT == 9
RDBQCNUMGE == 10
RDBQCNUMLT == 11
RDBQCNUMLE == 12
RDBQCNUMBT == 13
RDBQCNUMOREQ == 14
RDBQCFTSPH == 15
RDBQCFTSAND == 16
RDBQCFTSOR == 17
RDBQCFTSEX == 18
RDBQCNEGATE == 16777216

\* op | RDBQCNEGATE
OrNegate(op) ==
    IF (op \div RDBQCNEGATE) % 2 = 1 THEN op ELSE op + RDBQCNEGATE

----------------------------------------------------------------------------
(* class Lookup and Condition.LOOKUP_DEFINITIONS, pyrant/query.py. *)

\* Lookup.__init__ (min_args, max_args: 0 stands for None, both are false)
Lookup(operator, iterable, string, numeric, min_args, max_args) ==
    [operator |-> operator, iterable |-> iterable, string |-> string,
     numeric |-> numeric, boolean |-> FALSE, has_custom_value |-> FALSE,
     value |-> StrE(""), min_args |-> min_args, max_args |-> max_args]

\* ExistanceLookup(constant, boolean=True, value='')
ExistanceLookup(operator) ==
    [operator |-> operator, iterable |-> FALSE, string |-> FALSE,
     numeric |-> FALSE, boolean |-> TRUE, has_custom_value |-> TRUE,
     value |-> StrE(""), min_args |-> 0, max_args |-> 0]

LookupNames ==
    {"between", "contains", "contains_any", "endswith", "exists", "gt", "gte",
     "in", "is", "like", "like_any", "lt", "lte", "matches", "search",
     "startswith"}

LOOKUP_DEFINITIONS(name) ==
    CASE name = "between"      -> <<Lookup(RDBQCNUMBT, TRUE, FALSE, TRUE, 2, 2)>>
      [] name = "contains"     -> <<Lookup(RDBQCSTRINC, FALSE, TRUE, FALSE, 0, 0),
                                    Lookup(RDBQCSTRAND, TRUE, TRUE, FALSE, 0, 0)>>
      [] name = "contains_any" -> <<Lookup(RDBQCSTROR, TRUE, TRUE, FALSE, 0, 0)>>
      [] name = "endswith"     -> <<Lookup(RDBQCSTREW, FALSE, TRUE, FALSE, 0, 0)>>
      [] name = "exists"       -> <<ExistanceLookup(RDBQCSTRRX)>>
      [] name = "gt"           -> <<Lookup(RDBQCNUMGT, FALSE, FALSE, TRUE, 0, 0)>>
      [] name = "gte"          -> <<Lookup(RDBQCNUMGE, FALSE, FALSE, TRUE, 0, 0)>>
      [] name = "in"           -> <<Lookup(RDBQCSTROREQ, TRUE, TRUE, FALSE, 0, 0),
                                    Lookup(RDBQCNUMOREQ, TRUE, FALSE, TRUE, 0, 0)>>
      [] name = "is"           -> <<Lookup(RDBQCNUMEQ, FALSE, FALSE, TRUE, 0, 0),
                                    Lookup(RDBQCSTREQ, FALSE, FALSE, FALSE, 0, 0)>>
      [] name = "like"         -> <<Lookup(RDBQCFTSPH, FALSE, TRUE, FALSE, 0, 0),
                                    Lookup(RDBQCFTSAND, TRUE, TRUE, FALSE, 0, 0)>>
      [] name = "like_any"     -> <<Lookup(RDBQCFTSOR, TRUE, TRUE, FALSE, 0, 0)>>
      [] name = "lt"           -> <<Lookup(RDBQCNUMLT, FALSE, FALSE, TRUE, 0, 0)>>
      [] name = "lte"          -> <<Lookup(RDBQCNUMLE, FALSE, FALSE, TRUE, 0, 0)>>
      [] name = "matches"      -> <<Lookup(RDBQCSTRRX, FALSE, TRUE, FALSE, 0, 0)>>
      [] name = "search"       -> <<Lookup(RDBQCFTSEX, FALSE, TRUE, FALSE, 0, 0)>>
      [] name = "startswith"   -> <<Lookup(RDBQCSTRBW, FALSE, TRUE, FALSE, 0, 0)>>

\* Lookup.accepts(value)
Accepts(d, value) ==
    LET v1 == IF d.iterable /\ HasIter(value) /\ TruthyE(value)
              THEN value.v[1] ELSE value
    IN /\ d.iterable => HasIter(value)
       /\ d.boolean => IsBool(v1)
       /\ d.numeric => IsNumber(v1)
       /\ d.string => IsString(v1)

\* Lookup.validate(value): "" when valid, else the ValueError
Validate(d, value) ==
    IF HasIter(value) /\ d.min_args /= 0 /\ Len(value.v) < d.min_args
    THEN "ValueError"
    ELSE IF HasIter(value) /\ d.max_args /= 0 /\ d.max_args < Len(value.v)
    THEN "ValueError"
    ELSE ""

\* a loop body that leaves out the negation carried by the value of exists
PrepareWithNoInternal(c, d) ==
    LET value == IF d.has_custom_value THEN d.value ELSE c.expr
        op == IF c.negate THEN OrNegate(d.operator) ELSE d.operator
        stored == FromPython(value)
        flat == IF HasIter(stored)
                THEN StrE(Join(", ", [i \in 1..Len(stored.v) |-> Unicode(stored.v[i])]))
                ELSE stored
    IN IF Validate(d, c.expr) /= ""
       THEN [err |-> Validate(d, c.expr), triple |-> <<>>]
       ELSE [err |-> "", triple |-> <<c.name, op, flat>>]

\* the body of the loop of Condition.prepare for an accepting definition
PrepareWith(c, d) ==
    LET internal == d.has_custom_value /\ IsBool(c.expr) /\ ~c.expr.v
        negate == IF internal THEN ~c.negate ELSE c.negate
        value == IF d.has_custom_value THEN d.value ELSE c.expr
        op == IF negate THEN OrNegate(d.operator) ELSE d.operator
        stored == FromPython(value)
        flat == IF HasIter(stored)
                THEN StrE(Join(", ", [i \in 1..Len(stored.v) |-> Unicode(stored.v[i])]))
                ELSE stored
    IN IF Validate(d, c.expr) /= ""
       THEN [err |-> Validate(d, c.expr), triple |-> <<>>]
       ELSE [err |-> "", triple |-> <<c.name, op, flat>>]

\* a loop that tries the definitions from the last to the first
RECURSIVE PrepareFromLast(_, _, _)
PrepareFromLast(c, defs, i) ==
    IF i > Len(defs) THEN [err |-> "ValueError", triple |-> <<>>]
    ELSE IF Accepts(defs[Len(defs) + 1 - i], c.expr)
    THEN PrepareWith(c, defs[Len(defs) + 1 - i])
    ELSE PrepareFromLast(c, defs, i + 1)

\* the loop over the definitions of a lookup, from definition i on
RECURSIVE PrepareFrom(_, _, _)
PrepareFrom(c, defs, i) ==
    IF i > Len(defs) THEN [err |-> "ValueError", triple |-> <<>>]
    ELSE IF Accepts(defs[i], c.expr) THEN PrepareWith(c, defs[i])
    ELSE PrepareFrom(c, defs, i + 1)

\* a prepare that takes an unknown lookup for the default one
PrepareUnknownAsDefault(c) ==
    IF ~(Len(c.lookup) = 1 /\ c.lookup[1] \in LookupNames)
    THEN PrepareFrom(c, LOOKUP_DEFINITIONS("is"), 1)
    ELSE PrepareFrom(c, LOOKUP_DEFINITIONS(c.lookup[1]), 1)

\* Condition.prepare: [err, triple]; err is "" or the exception raised
Prepare(c) ==
    IF ~(Len(c.lookup) = 1 /\ c.lookup[1] \in LookupNames)
    THEN [err |-> "NameError", triple |-> <<>>]
    ELSE PrepareFrom(c, LOOKUP_DEFINITIONS(c.lookup[1]), 1)

\* [c.prepare() for c in conds]: the first exception raised, or the triples
PrepareAll(conds) ==
    LET bad == {i \in 1..Len(conds) : Prepare(conds[i]).err /= ""}
        first == CHOOSE i \in bad : \A j \in bad : i <= j
    IN IF bad /= {} THEN [err |-> Prepare(conds[first]).err, triples |-> <<>>]
       ELSE [err |-> "", triples |-> [i \in 1..Len(conds) |-> Prepare(conds[i]).triple]]

----------------------------------------------------------------------------
(* TyrantProtocol.search, pyrant/protocol.py.  p is the record of its       *)
(* arguments; an argument of misc is the sequence of its NUL-separated      *)
(* fields.                                                                  *)

\* the defaults of search's keyword arguments
SearchDefaults ==
    [conditions |-> <<>>, limit |-> Some(10), offset |-> Some(0),
     order_type |-> 0, order_column |-> None, ms_conditions |-> None,
     ms_type |-> None, columns |-> None,
     out |-> FALSE, count |-> FALSE, hint |-> FALSE]

\* the sanity checks without the rule on an offset without a limit
SearchCheckNoOffsetRule(p) ==
    IF ~(p.limit = None \/ 0 <= Val(p.limit)) THEN "AssertionError"
    ELSE IF ~(p.offset = None \/ 0 <= Val(p.offset)) THEN "AssertionError"
    ELSE ""

\* the sanity checks: "" or the exception raised before anything is sent
SearchCheck(p) ==
    IF ~(p.limit = None \/ 0 <= Val(p.limit)) THEN "AssertionError"
    ELSE IF ~(p.offset = None \/ 0 <= Val(p.offset)) THEN "AssertionError"
    ELSE IF TruthyInt(p.offset) /\ ~TruthyInt(p.limit) THEN "ValueError"
    ELSE IF ~(p.ms_type \in {None, Some(TDBMSUNION), Some(TDBMSISECT), Some(TDBMSDIFF)})
    THEN "AssertionError"
    ELSE IF ~(p.order_type \in {RDBQOSTRASC, RDBQOSTRDESC, RDBQONUMASC, RDBQONUMDESC})
    THEN "AssertionError"
    ELSE ""

\* 'addcond\x00%s\x00%d\x00%s' % cond
AddCond(t) == <<"addcond", t[1], ToString(t[2]), Unicode(t[3])>>

AddConds(conds) == [i \in 1..Len(conds) |-> AddCond(conds[i])]

\* the 'next' blocks of the metasearch branches, from branch i on
RECURSIVE NextBlocks(_, _)
NextBlocks(branches, i) ==
    IF i > Len(branches) THEN <<>>
    ELSE <<(<<"next">>)>> \o AddConds(branches[i]) \o NextBlocks(branches, i + 1)

\* an args list with setlimit put before setorder
SearchArgsLimitFirst(p) ==
    AddConds(p.conditions)
    \o (IF p.ms_type /= None /\ p.ms_conditions /= None /\ Len(Val(p.ms_conditions)) > 0
        THEN <<(<<"mstype", ToString(Val(p.ms_type))>>)>>
             \o NextBlocks(Val(p.ms_conditions), 1)
        ELSE <<>>)
    \o (IF p.columns /= None /\ Len(Val(p.columns)) > 0
        THEN <<(<<"get">> \o Val(p.columns))>> ELSE <<>>)
    \o (IF TruthyInt(p.limit)
        THEN <<(<<"setlimit", ToString(Val(p.limit)), ToString(Val(p.offset))>>)>>
        ELSE <<>>)
    \o (IF p.order_column /= None /\ Val(p.order_column) /= ""
        THEN <<(<<"setorder", Val(p.order_column), ToString(p.order_type)>>)>>
        ELSE <<>>)
    \o (IF p.out THEN <<(<<"out">>)>> ELSE <<>>)
    \o (IF p.count THEN <<(<<"count">>)>> ELSE <<>>)
    \o (IF p.hint THEN <<(<<"hint">>)>> ELSE <<>>)

\* the args list search hands to misc('search', args, opts)
SearchArgs(p) ==
    AddConds(p.conditions)
    \o (IF p.ms_type /= None /\ p.ms_conditions /= None /\ Len(Val(p.ms_conditions)) > 0
        THEN <<(<<"mstype", ToString(Val(p.ms_type))>>)>>
             \o NextBlocks(Val(p.ms_conditions), 1)
        ELSE <<>>)
    \o (IF p.columns /= None /\ Len(Val(p.columns)) > 0
        THEN <<(<<"get">> \o Val(p.columns))>> ELSE <<>>)
    \o (IF p.order_column /= None /\ Val(p.order_column) /= ""
        THEN <<(<<"setorder", Val(p.order_column), ToString(p.order_type)>>)>>
        ELSE <<>>)
    \o (IF TruthyInt(p.limit)
        THEN <<(<<"setlimit", ToString(Val(p.limit)), ToString(Val(p.offset))>>)>>
        ELSE <<>>)
    \o (IF p.out THEN <<(<<"out">>)>> ELSE <<>>)
    \o (IF p.count THEN <<(<<"count">>)>> ELSE <<>>)
    \o (IF p.hint THEN <<(<<"hint">>)>> ELSE <<>>)

\* search: [err, args, sent]; sent is the number of requests misc wrote.
\* 'setlimit\x00%d\x00%d' % (limit, offset) raises TypeError for offset None.
Search(p) ==
    IF SearchCheck(p) /= ""
    THEN [err |-> SearchCheck(p), args |-> <<>>, sent |-> 0]
    ELSE IF TruthyInt(p.limit) /\ p.offset = None
    THEN [err |-> "TypeError", args |-> <<>>, sent |-> 0]
    ELSE [err |-> "", args |-> SearchArgs(p), sent |-> 1]

----------------------------------------------------------------------------
(* Query._do_search, pyrant/query.py. *)

\* the prepared metasearch branches, or the first exception of a prepare
PrepareBranches(H, msid) ==
    LET ids == H.ms[msid]
        bad == {j \in 1..Len(ids) : PrepareAll(H.cond[ids[j]]).err /= ""}
        first == CHOOSE j \in bad : \A k \in bad : j <= k
    IN IF bad /= {} THEN [err |-> PrepareAll(H.cond[ids[first]]).err, branches |-> <<>>]
       ELSE [err |-> "",
             branches |-> [j \in 1..Len(ids) |-> PrepareAll(H.cond[ids[j]]).triples]]

\* the keyword arguments _do_search hands to search, given the prepared
\* conditions own and the prepared branches ms
SearchKwargs(self, H, own, ms, limit, offset, out, count, hint) ==
    [conditions    |-> own,
     limit         |-> limit,
     offset        |-> offset,
     order_type    |-> IF OrderingNonzero(self.ordering)
                       THEN OrderingType(self.ordering)
                       ELSE SearchDefaults.order_type,
     order_column  |-> IF OrderingNonzero(self.ordering)
                       THEN self.ordering.name
                       ELSE SearchDefaults.order_column,
     ms_conditions |-> IF TruthyMsList(H, self.ms_conditions)
                       THEN Some(ms)
                       ELSE SearchDefaults.ms_conditions,
     ms_type       |-> IF TruthyMsList(H, self.ms_conditions)
                       THEN self.ms_type
                       ELSE SearchDefaults.ms_type,
     columns       |-> IF TruthyColList(H, self.columns)
                       THEN Some(H.col[Val(self.columns)])
                       ELSE SearchDefaults.columns,
     out |-> out, count |-> count, hint |-> hint]

\* the outcome of _do_search once its conditions (own) and branches (ms) are
\* prepared: [err, args, searchCalls, sent]
DoSearchWith(self, H, own, ms, limit, offset, out, count, hint) ==
    IF own.err /= ""
    THEN [err |-> own.err, args |-> <<>>, searchCalls |-> 0, sent |-> 0]
    ELSE IF ms.err /= ""
    THEN [err |-> ms.err, args |-> <<>>, searchCalls |-> 0, sent |-> 0]
    ELSE [searchCalls |-> 1]
         @@ Search(SearchKwargs(self, H, own.triples, ms.branches, limit, offset,
                                out, count, hint))

\* Query._do_search(conditions, limit, offset, out, count, hint)
DoSearch(self, H, conditions, limit, offset, out, count, hint) ==
    DoSearchWith(self, H,
                 IF conditions /= None /\ Len(Val(conditions)) > 0
                 THEN [err |-> "", triples |-> Val(conditions)]
                 ELSE PrepareAll(H.cond[self.conditions]),
                 IF TruthyMsList(H, self.ms_conditions)
                 THEN PrepareBranches(H, Val(self.ms_conditions))
                 ELSE [err |-> "", branches |-> <<>>],
                 limit, offset, out, count, hint)

----------------------------------------------------------------------------
(* Query.__getitem__, pyrant/query.py.  A key k is an integer               *)
(* [slice |-> FALSE, i] or a slice [slice |-> TRUE, start, stop].           *)

IntKey(n) == [slice |-> FALSE, i |-> n, start |-> None, stop |-> None]
SliceKey(a, b) == [slice |-> TRUE, i |-> 0, start |-> a, stop |-> b]

\* the integrity checks without the test for negative values
KeyCheckNoNegative(k) ==
    IF k.slice
    THEN IF TruthyInt(k.start) /\ ~TruthyInt(k.stop) THEN "ValueError"
         ELSE IF TruthyInt(k.start) /\ k.start = k.stop THEN "ValueError"
         ELSE ""
    ELSE ""

\* the integrity checks: "" or the exception raised
KeyCheck(k) ==
    IF k.slice
    THEN IF (k.start /= None /\ Val(k.start) < 0) \/ (k.stop /= None /\ Val(k.stop) < 0)
         THEN "ValueError"
         ELSE IF TruthyInt(k.start) /\ ~TruthyInt(k.stop) THEN "ValueError"
         ELSE IF TruthyInt(k.start) /\ k.start = k.stop THEN "ValueError"
         ELSE ""
    ELSE IF k.i < 0 THEN "ValueError" ELSE ""

\* an offset that an integer key leaves at 0
KeyOffsetZero(k) ==
    IF k.slice THEN (IF TruthyInt(k.start) THEN k.start ELSE Some(0)) ELSE Some(0)

\* offset = k.start or 0, or k
KeyOffset(k) ==
    IF k.slice THEN (IF TruthyInt(k.start) THEN k.start ELSE Some(0)) ELSE Some(k.i)

\* a limit that takes the stop bound for the number of items
KeyLimitStop(k) ==
    IF k.slice THEN k.stop ELSE Some(1)

\* limit = k.stop - (k.start or 0) if k.start else k.stop, or 1
KeyLimit(k) ==
    IF k.slice
    THEN IF TruthyInt(k.start) THEN Some(Val(k.stop) - Val(k.start)) ELSE k.stop
    ELSE Some(1)

\* the requests __getitem__ sends after the search returned nkeys keys, and
\* the exception of keys[0] on an empty result
Fetch(self, H, k, nkeys) ==
    IF k.slice
    THEN [err |-> "", sent |-> IF TruthyColList(H, self.columns) THEN 0 ELSE 1]
    ELSE IF nkeys = 0 THEN [err |-> "IndexError", sent |-> 0]
    ELSE [err |-> "", sent |-> IF TruthyColList(H, self.columns) THEN 0 ELSE 1]

\* the outcome of __getitem__ given the outcome s of its search and f of
\* its fetch
GetItemWith(k, s, f) ==
    [err         |-> IF s.err /= "" THEN s.err ELSE f.err,
     offset      |-> KeyOffset(k),
     limit       |-> KeyLimit(k),
     args        |-> s.args,
     searchCalls |-> s.searchCalls,
     sent        |-> IF s.err /= "" THEN s.sent ELSE s.sent + f.sent]

\* what __getitem__ leaves when it raises before the search
Raised(err) ==
    [err |-> err, offset |-> None, limit |-> None, args |-> <<>>,
     searchCalls |-> 0, sent |-> 0]

\* __getitem__ once its conditions are prepared (own)
GetItemPrepared(self, H, k, nkeys, own) ==
    IF own.err /= "" THEN Raised(own.err)
    ELSE GetItemWith(k,
                     DoSearch(self, H, Some(own.triples), KeyLimit(k),
                              KeyOffset(k), FALSE, FALSE, FALSE),
                     Fetch(self, H, k, nkeys))

\* __getitem__(k) when the server answers the search with nkeys keys
GetItem(self, H, k, nkeys) ==
    IF KeyCheck(k) /= "" THEN Raised(KeyCheck(k))
    ELSE GetItemPrepared(self, H, k, nkeys, PrepareAll(H.cond[self.conditions]))

\* Query.delete(quick) once its out-flagged search returned s; c is the
\* outcome of the count search, n the length of the list it returned
DeleteAfter(s, quick, c, n) ==
    IF s.err /= "" THEN s @@ [ret |-> None]
    ELSE IF quick
    THEN IF c.err /= ""
         THEN [c EXCEPT !.searchCalls = @ + s.searchCalls, !.sent = @ + s.sent,
                        !.args = s.args] @@ [ret |-> None]
         ELSE [err |-> "", args |-> s.args, searchCalls |-> s.searchCalls + c.searchCalls,
               sent |-> s.sent + c.sent, ret |-> Some(~(n > 0))]
    ELSE s @@ [ret |-> None]

\* Query.delete(quick=False) when the count search returns a list of n items
Delete(self, H, quick, n) ==
    DeleteAfter(DoSearch(self, H, None, None, None, TRUE, FALSE, FALSE), quick,
                DoSearch(self, H, None, None, None, FALSE, TRUE, FALSE), n)

----------------------------------------------------------------------------
(* The builder methods of Query.  Each returns [err, q, H, searchCalls,     *)
(* sent]: the exception raised (or ""), the new Query, the heap after the   *)
(* call, and the calls made on the protocol object meanwhile.               *)

\* c.negate = c.negate ^ negate
Xor(a, b) == a /= b

\* the Conditions _filter appends to the clone
FilterConds(negate, args, kwargs) ==
    [i \in 1..Len(args) |->
        [ConditionClone(args[i]) EXCEPT !.negate = Xor(@, negate)]]
    \o [i \in 1..Len(kwargs) |->
        [ConditionInit(kwargs[i][1], kwargs[i][2], FALSE) EXCEPT !.negate = negate]]

\* _filter on the clone c
FilterOn(c, negate, args, kwargs) ==
    [err |-> "", q |-> c.q,
     H |-> [c.H EXCEPT !.cond[c.q.conditions] = @ \o FilterConds(negate, args, kwargs)],
     searchCalls |-> c.searchCalls, sent |-> c.sent]

\* Query._filter(negate, args, kwargs): args are Conditions, kwargs pairs
\* <<keyword, expression>>
Filter(self, H, negate, args, kwargs) ==
    FilterOn(QClone(self, H), negate, args, kwargs)

\* the loop of columns: names is the tuple of all arguments, so the first
\* branch (isinstance(names, (tuple, list))) is taken for every name
RECURSIVE ColumnsLoop(_, _, _)
ColumnsLoop(names, i, acc) ==
    IF i > Len(names) THEN acc ELSE ColumnsLoop(names, i + 1, acc \o names)

\* columns on the clone c
ColumnsOn(c, names) ==
    [err |-> "",
     q |-> [c.q EXCEPT !.columns = IF Len(names) > 0 THEN Some(Len(c.H.col) + 1)
                                   ELSE None],
     H |-> IF Len(names) > 0 THEN AllocCol(c.H, ColumnsLoop(names, 1, <<>>))
           ELSE c.H,
     searchCalls |-> c.searchCalls, sent |-> c.sent, names |-> names]

\* Query.columns(*names)
Columns(self, H, names) == ColumnsOn(QClone(self, H), names)

\* name.startswith('-')
StartsWithDash(name) == Len(name) > 0 /\ name[1] = "-"

\* order_by on the clone c
OrderByOn(c, name, numeric) ==
    [err |-> "",
     q |-> [c.q EXCEPT !.ordering =
               IF StartsWithDash(name)
               THEN OrderingInit(Some(Join("", Tail(name))), Some(DESC), numeric)
               ELSE OrderingInit(Some(Join("", name)), Some(ASC), numeric)],
     H |-> c.H,
     searchCalls |-> c.searchCalls, sent |-> c.sent,
     names |-> name, numeric |-> numeric]

\* Query.order_by(name, numeric); name is the sequence of its characters
OrderBy(self, H, name, numeric) == OrderByOn(QClone(self, H), name, numeric)

\* the end of _add_to_metasearch: the branch list msid of the clone c gets
\* the condition list of o, the clone of other
AttachBranch(c, msid, o, method) ==
    [err |-> "",
     q |-> [c.q EXCEPT !.ms_conditions = Some(msid), !.ms_type = Some(method)],
     H |-> [o.H EXCEPT !.ms[msid] = Append(@, o.q.conditions)],
     searchCalls |-> c.searchCalls + o.searchCalls,
     sent |-> c.sent + o.sent]

\* _add_to_metasearch without its assertion on the metasearch type
AddToMetasearchAnyType(self, H, c, other, method) ==
    IF TruthyMsList(c.H, c.q.ms_conditions)
    THEN AttachBranch(c, Val(c.q.ms_conditions), QClone(other, c.H), method)
    ELSE AttachBranch(c, Len(c.H.ms) + 1, QClone(other, AllocMs(c.H, <<>>)), method)

\* _add_to_metasearch on the clone c
AddToMetasearchOn(self, H, c, other, method) ==
    IF ~(c.q.ms_type \in {None, Some(method)})
    THEN [err |-> "AssertionError", q |-> self, H |-> H,
          searchCalls |-> c.searchCalls, sent |-> c.sent]
    ELSE IF TruthyMsList(c.H, c.q.ms_conditions)
    THEN AttachBranch(c, Val(c.q.ms_conditions), QClone(other, c.H), method)
    ELSE AttachBranch(c, Len(c.H.ms) + 1, QClone(other, AllocMs(c.H, <<>>)), method)

\* Query._add_to_metasearch(other, method)
AddToMetasearch(self, H, other, method) ==
    AddToMetasearchOn(self, H, QClone(self, H), other, method)

\* union, intersect, minus
Union(self, H, other) == AddToMetasearch(self, H, other, TDBMSUNION)
Intersect(self, H, other) == AddToMetasearch(self, H, other, TDBMSISECT)
Minus(self, H, other) == AddToMetasearch(self, H, other, TDBMSDIFF)

----------------------------------------------------------------------------
(* The wire format, pyrant/protocol.py.  A byte string is a sequence of     *)
(* bytes 0..255; a unicode string is a sequence of code points.             *)

MAGIC_NUMBER == 200

PUT == 16
PUTNR == 24
OUT == 32
GET == 48
ITERINIT == 80
ITERNEXT == 81
ADDDOUBLE == 97
MISC == 144

\* struct.pack of one big-endian unsigned integer of w bytes
RECURSIVE BE(_, _)
BE(n, w) == IF w = 0 THEN <<>> ELSE BE(n \div 256, w - 1) \o <<n % 256>>

\* struct.unpack of one big-endian unsigned integer
RECURSIVE FromBE(_)
FromBE(b) ==
    IF Len(b) = 0 THEN 0
    ELSE 256 * FromBE(SubSeq(b, 1, Len(b) - 1)) + b[Len(b)]

\* the arguments of _pack by type
IntA(n) == [t |-> "int", v |-> n]
LongA(n) == [t |-> "long", v |-> n]
StrA(b) == [t |-> "str", v |-> b]
ListA(l) == [t |-> "list", v |-> l]

\* the integer fields of _pack, from argument i on: 'I' for an int, 'Q' for
\* a long, in argument order
RECURSIVE PackInts(_, _)
PackInts(args, i) ==
    IF i > Len(args) THEN <<>>
    ELSE (IF args[i].t = "int" THEN BE(args[i].v, 4)
          ELSE IF args[i].t = "long" THEN BE(args[i].v, 8)
          ELSE <<>>)
         \o PackInts(args, i + 1)

\* the length-prefixed elements of a list argument, from element j on
RECURSIVE PackList(_, _)
PackList(l, j) ==
    IF j > Len(l) THEN <<>>
    ELSE BE(Len(l[j]), 4) \o l[j] \o PackList(l, j + 1)

\* buf of _pack, from argument i on: the strings and the list elements
RECURSIVE PackBuf(_, _)
PackBuf(args, i) ==
    IF i > Len(args) THEN <<>>
    ELSE (IF args[i].t = "str" THEN args[i].v
          ELSE IF args[i].t = "list" THEN PackList(args[i].v, 1)
          ELSE <<>>)
         \o PackBuf(args, i + 1)

\* a packing that emits every argument where it stands in the call
RECURSIVE PackInCallOrder(_, _)
PackInCallOrder(code, args) ==
    IF Len(args) = 0 THEN <<MAGIC_NUMBER, code>>
    ELSE PackInCallOrder(code, SubSeq(args, 1, Len(args) - 1))
         \o PackInts(<<args[Len(args)]>>, 1) \o PackBuf(<<args[Len(args)]>>, 1)

\* _pack(code, *args)
Pack(code, args) == <<MAGIC_NUMBER, code>> \o PackInts(args, 1) \o PackBuf(args, 1)

\* _ulen of a byte string
Ulen(b) == Len(b)

\* str.decode('UTF-8', 'strict') of a byte string of one-byte characters;
\* a byte above 127 does not start such a character
Decode(b) ==
    IF \A i \in 1..Len(b) : b[i] < 128
    THEN [err |-> "", text |-> [i \in 1..Len(b) |-> b[i]]]
    ELSE [err |-> "UnicodeDecodeError", text |-> <<>>]

----------------------------------------------------------------------------
(* pyrant/exceptions.py. *)

\* the subclasses of TyrantError
TyrantErrors ==
    {"Success", "InvalidOperation", "HostNotFound", "ConnectionRefused",
     "SendError", "ReceiveError", "RecordExists", "RecordNotFound",
     "MiscellaneousError"}

\* an error mapping that knows no code
GetForCodeUnmapped(code) == "ValueError"

\* an error mapping with the entries of 6 and 7 exchanged
GetForCodeSwapped(code) ==
    CASE code = 0 -> "Success"
      [] code = 1 -> "InvalidOperation"
      [] code = 2 -> "HostNotFound"
      [] code = 3 -> "ConnectionRefused"
      [] code = 4 -> "SendError"
      [] code = 5 -> "ReceiveError"
      [] code = 6 -> "RecordNotFound"
      [] code = 7 -> "RecordExists"
      [] code = 9999 -> "MiscellaneousError"
      [] OTHER -> "ValueError"

\* get_for_code(error_code): the class of the exception
GetForCode(code) ==
    CASE code = 0 -> "Success"
      [] code = 1 -> "InvalidOperation"
      [] code = 2 -> "HostNotFound"
      [] code = 3 -> "ConnectionRefused"
      [] code = 4 -> "SendError"
      [] code = 5 -> "ReceiveError"
      [] code = 6 -> "RecordExists"
      [] code = 7 -> "RecordNotFound"
      [] code = 9999 -> "MiscellaneousError"
      [] OTHER -> "ValueError"

----------------------------------------------------------------------------
(* class _TyrantSocket, pyrant/protocol.py.  buf is what the server has     *)
(* sent and the client has not read yet.  Each method returns the exception *)
(* raised (or ""), its value, the unread rest and the number of bytes read. *)

\* recv(bytes): the loop ends with all the bytes, or with socket.error when
\* the peer closes before they have arrived
Recv(buf, n) ==
    IF Len(buf) >= n
    THEN [err |-> "", data |-> SubSeq(buf, 1, n),
          rest |-> SubSeq(buf, n + 1, Len(buf)), reads |-> n]
    ELSE [err |-> "socket.error", data |-> <<>>, rest |-> <<>>, reads |-> Len(buf)]

\* get_byte
GetByte(buf) == Recv(buf, 1)

\* get_int
GetInt(buf) == [Recv(buf, 4) EXCEPT !.data = FromBE(@)]

\* F applied to the value of x, which is computed once
Then(F(_), x) == CHOOSE y \in {F(v) : v \in {x}} : TRUE

\* recv(n) after get_int returned r
GetStrAfter(r) ==
    IF r.err /= "" THEN r
    ELSE [Recv(r.rest, r.data) EXCEPT !.reads = @ + r.reads]

\* get_str
GetStr(buf) == Then(GetStrAfter, GetInt(buf))

\* decode after get_str returned r
GetUnicodeAfter(r) ==
    IF r.err /= "" THEN r
    ELSE IF Decode(r.data).err /= "" THEN [r EXCEPT !.err = Decode(r.data).err]
    ELSE [r EXCEPT !.data = Decode(r.data).text]

\* get_unicode
GetUnicode(buf) == Then(GetUnicodeAfter, GetStr(buf))

\* what a read that failed leaves of a call that had read n bytes before
Failed(r, n) == [err |-> r.err, data |-> <<>>, rest |-> r.rest, reads |-> n + r.reads]

\* a decoding that reads each length just before its string
GetStrpairInterleaved(buf) ==
    LET k == GetStr(buf)
        v == GetStr(k.rest)
    IN IF k.err /= "" THEN Failed(k, 0)
       ELSE IF v.err /= "" THEN Failed(v, k.reads)
       ELSE [err |-> "", data |-> <<k.data, v.data>>, rest |-> v.rest,
             reads |-> k.reads + v.reads]

\* get_strpair: klen = get_int(); vlen = get_int(); recv(klen), recv(vlen)
GetStrpair(buf) ==
    LET klen == GetInt(buf)
        vlen == GetInt(klen.rest)
        k == Recv(vlen.rest, klen.data)
        v == Recv(k.rest, vlen.data)
    IN IF klen.err /= "" THEN Failed(klen, 0)
       ELSE IF vlen.err /= "" THEN Failed(vlen, klen.reads)
       ELSE IF k.err /= "" THEN Failed(k, klen.reads + vlen.reads)
       ELSE IF v.err /= "" THEN Failed(v, klen.reads + vlen.reads + k.reads)
       ELSE [err |-> "", data |-> <<k.data, v.data>>, rest |-> v.rest,
             reads |-> klen.reads + vlen.reads + k.reads + v.reads]

\* get_double: struct.unpack('>QQ', recv(16)); the value returned is
\* intpart + fracpart * 1e-12, kept here as the pair of its two terms
GetDouble(buf) ==
    LET r == Recv(buf, 16)
    IN IF r.err /= "" THEN Failed(r, 0)
       ELSE [err |-> "", rest |-> r.rest, reads |-> r.reads,
             data |-> [intpart |-> FromBE(SubSeq(r.data, 1, 8)),
                       fracpart |-> FromBE(SubSeq(r.data, 9, 16))]]

\* A double num >= 0 is [int, frac, tenth]: the number
\* int + (frac + tenth / 10) * 1e-12 with 0 <= tenth <= 9.
\* math.modf(num): the fractional and the integer part
Modf(num) == [fracpart |-> [frac |-> num.frac, tenth |-> num.tenth],
              intpart |-> num.int]

\* fracpart * 1e12 rounded to the nearest integer, halves upwards
RoundFrac(f) == IF f.tenth >= 5 THEN f.frac + 1 ELSE f.frac

\* int(fracpart * 1e12): int() drops the digits after the point
IntFrac(f) == f.frac

\* the arguments adddouble(key, num) hands to send
AdddoubleArgs(key, num) ==
    <<IntA(Ulen(key)), LongA(Modf(num).intpart), LongA(IntFrac(Modf(num).fracpart)),
      StrA(key)>>

\* the rest of send after get_byte returned r
SendAfter(r) ==
    IF r.err /= "" THEN [err |-> r.err, rest |-> r.rest, reads |-> r.reads]
    ELSE IF r.data[1] /= 0
    THEN [err |-> GetForCode(r.data[1]), rest |-> r.rest, reads |-> r.reads]
    ELSE [err |-> "", rest |-> r.rest, reads |-> r.reads]

\* a send that waits for a status byte whatever sync says
SendAlwaysSync(buf, sync) == Then(SendAfter, GetByte(buf))

\* send(*args, sync) once the packed request is written: what it reads
Send(buf, sync) ==
    IF ~sync THEN [err |-> "", rest |-> buf, reads |-> 0]
    ELSE Then(SendAfter, GetByte(buf))

\* a command that returns nothing, after its send returned s
CommandAfter(s) ==
    [err |-> s.err, ret |-> None, rest |-> s.rest,
     sendReads |-> s.reads, reads |-> s.reads]

\* a command that sends and returns nothing: put, putnr, out, iterinit
Command(buf, sync) == Then(CommandAfter, Send(buf, sync))

\* iternext after its send returned s and its get_unicode returned g
IterNextRead(s, g) ==
    [err |-> g.err, ret |-> IF g.err = "" THEN Some(g.data) ELSE None,
     rest |-> g.rest, sendReads |-> s.reads, reads |-> s.reads + g.reads]

\* iternext after its send returned s
IterNextAfter(s) ==
    IF s.err /= "" THEN CommandAfter(s)
    ELSE Then(LAMBDA g : IterNextRead(s, g), GetUnicode(s.rest))

\* TyrantProtocol.iternext once the request is written
IterNext(buf) == Then(IterNextAfter, Send(buf, TRUE))

\* get after its send returned s and its get_unicode returned g
GetRead(s, g) ==
    [err |-> g.err, ret |-> IF g.err = "" THEN Some(g.data) ELSE None,
     rest |-> g.rest, sendReads |-> s.reads, reads |-> s.reads + g.reads]

\* get after its send returned s: a status that is not 0 raises in send
GetAfter(s) ==
    IF s.err /= "" THEN CommandAfter(s)
    ELSE Then(LAMBDA g : GetRead(s, g), GetUnicode(s.rest))

\* TyrantProtocol.get(key) once the request is written
Get(buf) == Then(GetAfter, Send(buf, TRUE))

\* [self._sock.get_unicode() for i in xrange(n)]
RECURSIVE GetUnicodes(_, _)
GetUnicodes(buf, n) ==
    IF n = 0 THEN [err |-> "", data |-> <<>>, rest |-> buf, reads |-> 0]
    ELSE LET g == GetUnicode(buf)
             t == GetUnicodes(g.rest, n - 1)
         IN IF g.err /= "" THEN Failed(g, 0)
            ELSE IF t.err /= "" THEN Failed(t, g.reads)
            ELSE [err |-> "", data |-> <<g.data>> \o t.data, rest |-> t.rest,
                  reads |-> g.reads + t.reads]

\* a misc whose send leaves at once when the status is not 0
MiscNoFinally(buf) ==
    LET s == Send(buf, TRUE)
        n == GetInt(s.rest)
        l == GetUnicodes(n.rest, n.data)
    IN IF s.err /= "" THEN CommandAfter(s)
       ELSE IF n.err /= ""
       THEN [err |-> n.err, ret |-> None, rest |-> n.rest, sendReads |-> s.reads,
             reads |-> s.reads + n.reads]
       ELSE [err |-> l.err, ret |-> IF l.err = "" THEN Some(l.data) ELSE None,
             rest |-> l.rest, sendReads |-> s.reads,
             reads |-> s.reads + n.reads + l.reads]

\* TyrantProtocol.misc(func, args, opts) once the request is written: the
\* count is read in the finally clause, whether send raised or not, and the
\* exception of send goes on after it
Misc(buf) ==
    LET s == Send(buf, TRUE)
        n == GetInt(s.rest)
        l == GetUnicodes(n.rest, n.data)
    IN IF n.err /= "" \/ s.err /= ""
       THEN [err |-> IF n.err /= "" THEN n.err ELSE s.err, ret |-> None,
             rest |-> n.rest, sendReads |-> s.reads, reads |-> s.reads + n.reads]
       ELSE [err |-> l.err, ret |-> IF l.err = "" THEN Some(l.data) ELSE None,
             rest |-> l.rest, sendReads |-> s.reads,
             reads |-> s.reads + n.reads + l.reads]

----------------------------------------------------------------------------
(* Tyrant.multi_add, pyrant/__init__.py.  The server generates the keys     *)
(* uid + 1, uid + 2, ... (genuid); a putlist call is the list of the        *)
(* records multi_set hands to misc('putlist', ...).                         *)

\* 0 < chunk_size < len(chunk)
ChunkIsBig(chunk_size, chunk) == 0 < chunk_size /\ chunk_size < Len(chunk)

\* the loop of _multi_add from value i on: uid is the last key generated,
\* chunk the records gathered, keys the keys yielded and calls the putlist
\* calls made so far
RECURSIVE MultiAddLoop(_, _, _, _, _, _, _)
MultiAddLoop(values, chunk_size, i, uid, chunk, keys, calls) ==
    IF i > Len(values)
    THEN [keys |-> keys, calls |-> Append(calls, chunk)]
    ELSE IF ChunkIsBig(chunk_size, Append(chunk, [key |-> uid + 1, value |-> values[i]]))
    THEN MultiAddLoop(values, chunk_size, i + 1, uid + 1, <<>>,
                      Append(keys, uid + 1),
                      Append(calls, Append(chunk, [key |-> uid + 1,
                                                   value |-> values[i]])))
    ELSE MultiAddLoop(values, chunk_size, i + 1, uid + 1,
                      Append(chunk, [key |-> uid + 1, value |-> values[i]]),
                      Append(keys, uid + 1), calls)

\* multi_add(values, chunk_size): list(self._multi_add(...))
MultiAdd(values, chunk_size, uid) ==
    MultiAddLoop(values, chunk_size, 1, uid, <<>>, <<>>, <<>>)

----------------------------------------------------------------------------
(* The loop of _TyrantSocket.recv, one socket read at a time.  rx.stream is  *)
(* what the peer sends before it closes; the socket hands over at least one *)
(* byte of it and at most the number asked for, and nothing once the peer   *)
(* has closed.                                                              *)

\* the largest read recv asks of the socket
RECV_CHUNK == 8192

Min(a, b) == IF a < b THEN a ELSE b

\* a read that asks for a full chunk whatever is missing
AskedWholeChunk(bytes, d) == RECV_CHUNK

\* min(8192, bytes - len(d))
Asked(bytes, d) == Min(RECV_CHUNK, bytes - Len(d))

\* recv(bytes) is called while the peer has stream to send: d = ''
RecvCall ==
    /\ rx.pc /= "loop"
    /\ \E bytes \in 0..MaxRecv, len \in 0..MaxStream :
          rx' = [pc |-> "loop", bytes |-> bytes, sent |-> [i \in 1..len |-> i],
                 stream |-> [i \in 1..len |-> i], d |-> <<>>, reads |-> 0,
                 asked |-> 0, missing |-> 0, err |-> "", ret |-> <<>>]
    /\ UNCHANGED <<call, it>>
    /\ UNCHANGED queryVars
    /\ UNCHANGED sockVars

\* the state of recv after the socket read returned the first k bytes of the
\* stream: none raises socket.error, else they are added to d
RecvRead(k) ==
    IF k = 0
    THEN [rx EXCEPT !.pc = "raised", !.err = "socket.error",
                    !.reads = @ + 1, !.asked = Asked(rx.bytes, rx.d),
                    !.missing = rx.bytes - Len(rx.d)]
    ELSE [rx EXCEPT !.d = @ \o SubSeq(rx.stream, 1, k),
                    !.stream = SubSeq(@, k + 1, Len(@)),
                    !.reads = @ + 1, !.asked = Asked(rx.bytes, rx.d),
                    !.missing = rx.bytes - Len(rx.d)]

\* one turn of the loop: the test, then a read or the return of d
RecvStep ==
    /\ rx.pc = "loop"
    /\ IF Len(rx.d) < rx.bytes
       THEN \E k \in (IF Len(rx.stream) = 0 THEN {0}
                      ELSE 1..Min(Asked(rx.bytes, rx.d), Len(rx.stream))) :
                rx' = RecvRead(k)
       ELSE rx' = [rx EXCEPT !.pc = "done", !.ret = rx.d]
    /\ UNCHANGED <<call, it>>
    /\ UNCHANGED queryVars
    /\ UNCHANGED sockVars

----------------------------------------------------------------------------
(* Inputs of the model. *)

\* keyword conditions: a valid one, the default lookup, an unknown lookup
\* and a between of the wrong arity
KwConds ==
    { <<(<<"price", "gt">>), IntE(1)>>,
      <<(<<"name">>), StrE("a")>>,
      <<(<<"price", "foo">>), IntE(1)>>,
      <<(<<"stock", "between">>), ListE(<<IntE(1)>>)>> }

\* Condition objects passed positionally
ArgConds == { ConditionInit(<<"color", "exists">>, BoolE(FALSE), TRUE) }

\* column names for order_by, as characters
OrderNames == { <<"i", "d">>, <<"-", "i", "d">> }

\* arguments of columns
ColumnArgs == { <<>>, <<"*">>, <<"a", "b">> }

OptIdx == {None} \cup {Some(n) : n \in -1..MaxIdx}

Keys == {IntKey(n) : n \in -1..MaxIdx}
        \cup {SliceKey(a, b) : a \in OptIdx, b \in OptIdx}

----------------------------------------------------------------------------
(* The state machine of the query layer. *)

NoKey == IntKey(0)

Idle ==
    [op |-> "init", src |-> 0, other |-> 0, res |-> 0, err |-> "", k |-> NoKey,
     offset |-> None, limit |-> None, args |-> <<>>, searchCalls |-> 0,
     sent |-> 0, repeat |-> FALSE, names |-> <<>>, numeric |-> FALSE,
     quick |-> FALSE, ret |-> None]

\* no command yet
NoCmd ==
    [op |-> "none", sync |-> TRUE, written |-> <<>>, status |-> None, err |-> "",
     ret |-> None, sendReads |-> 0, reads |-> 0]

\* no function called yet
NoCall == [fn |-> "none"]

\* no recv in progress
NoRecv == [pc |-> "none"]

\* no loop over a Query yet
NoLoop == [pc |-> "none"]

\* Tyrant.query: Query(self.proto, self.db_type, self.literal)
TyrantQuery ==
    QueryInit([cond |-> <<>>, col |-> <<>>, ms |-> <<>>], FALSE, None, None, None,
              None)

Init ==
    /\ queries = <<TyrantQuery.q>>
    /\ condLists = TyrantQuery.H.cond
    /\ colLists = TyrantQuery.H.col
    /\ msLists = TyrantQuery.H.ms
    /\ last = [Idle EXCEPT !.res = 1, !.searchCalls = TyrantQuery.searchCalls,
                           !.sent = TyrantQuery.sent]
    /\ db = <<>>
    /\ cursor = None
    /\ inbuf = <<>>
    /\ cmd = NoCmd
    /\ gen = [pc |-> "none", yielded |-> <<>>, clean |-> FALSE]
    /\ iter = [seen |-> <<>>, clean |-> FALSE]
    /\ call = NoCall
    /\ rx = NoRecv
    /\ it = NoLoop

\* the effect of a builder call: a new Query unless it raised
Built(op, src, other, r) ==
    /\ queries' = IF r.err = "" THEN Append(queries, r.q) ELSE queries
    /\ condLists' = IF r.err = "" THEN r.H.cond ELSE condLists
    /\ colLists' = IF r.err = "" THEN r.H.col ELSE colLists
    /\ msLists' = IF r.err = "" THEN r.H.ms ELSE msLists
    /\ last' = [Idle EXCEPT !.op = op, !.src = src, !.other = other,
                            !.res = IF r.err = "" THEN Len(queries) + 1 ELSE 0,
                            !.err = r.err, !.searchCalls = r.searchCalls,
                            !.sent = r.sent,
                            !.names = IF "names" \in DOMAIN r THEN r.names ELSE <<>>,
                            !.numeric = IF "numeric" \in DOMAIN r THEN r.numeric
                                        ELSE FALSE]
    /\ UNCHANGED sockVars
    /\ UNCHANGED pureVars

FilterKw(max) ==
    Len(queries) < max /\
    \E src \in 1..Len(queries), negate \in BOOLEAN, kw \in KwConds :
        Built(IF negate THEN "exclude" ELSE "filter", src, 0,
                 Filter(queries[src], Heap, negate, <<>>, <<kw>>))

FilterArg(max) ==
    Len(queries) < max /\
    \E src \in 1..Len(queries), negate \in BOOLEAN, c \in ArgConds :
        Built(IF negate THEN "exclude" ELSE "filter", src, 0,
                 Filter(queries[src], Heap, negate, <<c>>, <<>>))

DoColumns(max) ==
    Len(queries) < max /\
    \E src \in 1..Len(queries), names \in ColumnArgs :
        Built("columns", src, 0, Columns(queries[src], Heap, names))

DoOrderBy(max) ==
    Len(queries) < max /\
    \E src \in 1..Len(queries), name \in OrderNames, numeric \in BOOLEAN :
        Built("order_by", src, 0, OrderBy(queries[src], Heap, name, numeric))

DoUnion(max) ==
    Len(queries) < max /\
    \E src \in 1..Len(queries), other \in 1..Len(queries) :
        Built("union", src, other, Union(queries[src], Heap, queries[other]))

DoIntersect(max) ==
    Len(queries) < max /\
    \E src \in 1..Len(queries), other \in 1..Len(queries) :
        Built("intersect", src, other,
                 Intersect(queries[src], Heap, queries[other]))

DoMinus(max) ==
    Len(queries) < max /\
    \E src \in 1..Len(queries), other \in 1..Len(queries) :
        Built("minus", src, other, Minus(queries[src], Heap, queries[other]))

\* the keys the server may answer a search with: at most limit of them
Answers(limit) ==
    {0} \cup {n \in 1..MaxKeys : TruthyInt(limit) => n <= Val(limit)}

\* an evaluation that answers a repeated window from a cache
EvaluatedCached(src, k, r) ==
    [op |-> "getitem", src |-> src, other |-> 0, res |-> 0, err |-> r.err,
     k |-> k, offset |-> r.offset, limit |-> r.limit, args |-> r.args,
     names |-> <<>>, numeric |-> FALSE, quick |-> FALSE, ret |-> None,
     searchCalls |-> IF /\ last.op = "getitem"
                        /\ last.searchCalls = 1
                        /\ last.src = src
                        /\ last.offset = r.offset
                        /\ last.limit = r.limit
                     THEN 0 ELSE r.searchCalls,
     sent |-> r.sent,
     repeat |-> /\ last.op = "getitem"
                /\ last.searchCalls = 1
                /\ last.src = src
                /\ last.offset = r.offset
                /\ last.limit = r.limit]

\* the record of an evaluation q[k] with outcome r; repeat tells whether the
\* operation before it searched the same query with the same offset and limit
Evaluated(src, k, r) ==
    [op |-> "getitem", src |-> src, other |-> 0, res |-> 0, err |-> r.err,
     k |-> k, offset |-> r.offset, limit |-> r.limit, args |-> r.args,
     names |-> <<>>, numeric |-> FALSE, quick |-> FALSE, ret |-> None,
     searchCalls |-> r.searchCalls, sent |-> r.sent,
     repeat |-> /\ last.op = "getitem"
                /\ last.searchCalls = 1
                /\ last.src = src
                /\ last.offset = r.offset
                /\ last.limit = r.limit]

\* an evaluation q[k]
DoGetItem ==
    \E src \in 1..Len(queries), k \in Keys :
        \E nkeys \in (IF KeyCheck(k) = "" THEN Answers(KeyLimit(k)) ELSE {0}) :
            /\ last' = Evaluated(src, k, GetItem(queries[src], Heap, k, nkeys))
            /\ UNCHANGED <<queries, condLists, colLists, msLists>>
            /\ UNCHANGED sockVars
            /\ UNCHANGED pureVars

\* the record of a call q.delete(quick) with outcome r
Deleted(src, quick, r) ==
    [Idle EXCEPT !.op = "delete", !.src = src, !.err = r.err, !.args = r.args,
                 !.searchCalls = r.searchCalls, !.sent = r.sent,
                 !.quick = quick, !.ret = r.ret]

\* a call q.delete(quick); the count search answers with a list of at most
\* one item
DoDelete ==
    \E src \in 1..Len(queries), quick \in BOOLEAN, n \in 0..1 :
        /\ last' = Deleted(src, quick, Delete(queries[src], Heap, quick, n))
        /\ UNCHANGED <<queries, condLists, colLists, msLists>>
        /\ UNCHANGED sockVars
        /\ UNCHANGED pureVars

\* the keys the server answers a search with, when the keys of its matches
\* are 1..n in its order: at most limit of them, after the first offset
ServerSearch(n, limit, offset) ==
    LET from == (IF offset = None THEN 0 ELSE Val(offset)) + 1
        to == IF TruthyInt(limit) THEN Min(n, from + Val(limit) - 1) ELSE n
    IN [j \in 1..(IF to >= from THEN to - from + 1 ELSE 0) |-> from + j - 1]

\* "for item in q": Python calls q[0], q[1], ... until IndexError.  The loop
\* starts over a Query with n matches on the server.
IterStart ==
    /\ it.pc /= "loop"
    /\ \E src \in 1..Len(queries), n \in 0..MaxMatches :
          it' = [pc |-> "loop", src |-> src, n |-> n, i |-> 0, items |-> <<>>,
                 searches |-> 0, sent |-> 0, err |-> ""]
    /\ UNCHANGED <<call, rx>>
    /\ UNCHANGED queryVars
    /\ UNCHANGED sockVars

\* the loop after q[it.i] came back with outcome r, the server having
\* answered the search with keys
IterAfter(r, keys) ==
    [it EXCEPT !.pc = IF r.err = "" THEN "loop"
                      ELSE IF r.err = "IndexError" THEN "done" ELSE "raised",
               !.err = IF r.err = "IndexError" THEN "" ELSE r.err,
               !.i = IF r.err = "" THEN @ + 1 ELSE @,
               !.items = IF r.err = "" THEN Append(@, keys[1]) ELSE @,
               !.searches = @ + r.searchCalls,
               !.sent = @ + r.sent]

\* one round of the loop: q[it.i]
IterStep ==
    /\ it.pc = "loop"
    /\ it.i <= MaxMatches + 1
    /\ \E keys \in {ServerSearch(it.n, KeyLimit(IntKey(it.i)), KeyOffset(IntKey(it.i)))} :
          \E r \in {GetItem(queries[it.src], Heap, IntKey(it.i), Len(keys))} :
              it' = IterAfter(r, keys)
    /\ UNCHANGED <<call, rx>>
    /\ UNCHANGED queryVars
    /\ UNCHANGED sockVars

\* the record of a call search([], limit=limit, offset=offset) with outcome s
Searched(limit, offset, s) ==
    [Idle EXCEPT !.op = "search", !.err = s.err, !.offset = offset,
                 !.limit = limit, !.args = s.args, !.searchCalls = 1,
                 !.sent = s.sent]

\* a call of TyrantProtocol.search by the user of the protocol object
DoProtoSearch ==
    \E limit \in OptIdx, offset \in OptIdx :
        /\ last' = Searched(limit, offset,
                            Search([SearchDefaults EXCEPT !.limit = limit,
                                                          !.offset = offset]))
        /\ UNCHANGED <<queries, condLists, colLists, msLists>>
        /\ UNCHANGED sockVars
        /\ UNCHANGED pureVars

----------------------------------------------------------------------------
(* The server, as the docstrings of pyrant/protocol.py describe it: it      *)
(* answers a request with a status byte and, on success, the payload.       *)

\* the keys a client uses: one-letter strings
KeyStrings == {<<96 + k>> : k \in 1..MaxDb}

\* the value a client stores
Value == <<118>>

\* the status bytes of a refused put: the mapped codes and, above 7, codes
\* that are not mapped
FailCodes == 1..MaxStatus

\* the keys after key was stored
Stored(d, key) == IF key \in Range(d) THEN d ELSE Append(d, key)

\* the keys after key was removed
Removed(d, key) == SelectSeq(d, LAMBDA x : x /= key)

\* the index of key in the keys d, or 0
RECURSIVE IndexOf(_, _, _)
IndexOf(d, key, i) ==
    IF i > Len(d) THEN 0 ELSE IF d[i] = key THEN i ELSE IndexOf(d, key, i + 1)

\* the iterator after key was removed from d: a key it has passed no longer
\* counts
CursorRemoved(d, cur, key) ==
    IF cur /= None /\ IndexOf(d, key, 1) > 0 /\ IndexOf(d, key, 1) <= Val(cur)
    THEN Some(Val(cur) - 1) ELSE cur

\* the answer to iternext: the next key, or status 1 at the end and before
\* any iterinit
ServerIterNext(d, cur) ==
    IF cur /= None /\ Val(cur) < Len(d)
    THEN <<0>> \o BE(Len(d[Val(cur) + 1]), 4) \o d[Val(cur) + 1]
    ELSE <<1>>

\* the iterator after iternext
CursorAfter(d, cur) ==
    IF cur /= None /\ Val(cur) < Len(d) THEN Some(Val(cur) + 1) ELSE cur

----------------------------------------------------------------------------
(* The state machine of the socket layer: the commands of TyrantProtocol    *)
(* and Tyrant.iterkeys.                                                     *)

\* the record of a command with outcome c
Recorded(op, sync, request, status, c) ==
    [op |-> op, sync |-> sync, written |-> request, status |-> status,
     err |-> c.err, ret |-> c.ret, sendReads |-> c.sendReads, reads |-> c.reads]

\* the history after a command that left the keys d
Disturb(h, d) ==
    IF h.clean /\ d = db THEN h ELSE [h EXCEPT !.clean = FALSE, !.seen = <<>>]

\* the generator after a command of another caller that left the keys d and
\* the iterator cur
DisturbGen(g, d, cur) ==
    IF g.clean /\ d = db /\ cur = cursor THEN g
    ELSE [g EXCEPT !.clean = FALSE, !.yielded = <<>>]

\* the state after a command that wrote request, was answered status and
\* had the outcome c, the server being left with the keys d and the
\* iterator cur
Commanded(op, sync, request, status, c, d, cur) ==
    /\ cmd' = Recorded(op, sync, request, status, c)
    /\ inbuf' = c.rest
    /\ db' = d
    /\ cursor' = cur
    /\ iter' = Disturb(iter, d)
    /\ gen' = DisturbGen(gen, d, cur)
    /\ UNCHANGED queryVars
    /\ UNCHANGED pureVars

\* TyrantProtocol.put(key, value)
DoPut ==
    \E key \in KeyStrings, status \in {0} \cup FailCodes :
        \E c \in {Command(inbuf \o <<status>>, TRUE)} :
            Commanded("put", TRUE,
                      Pack(PUT, <<IntA(Ulen(key)), IntA(Ulen(Value)),
                                  StrA(key), StrA(Value)>>),
                      Some(status), c,
                      IF status = 0 THEN Stored(db, key) ELSE db, cursor)

\* TyrantProtocol.putnr(key, value): the server answers nothing, and stores
\* the record or not
DoPutnr ==
    \E key \in KeyStrings, stored \in BOOLEAN :
        \E c \in {Command(inbuf, FALSE)} :
            Commanded("putnr", FALSE,
                      Pack(PUTNR, <<IntA(Ulen(key)), IntA(Ulen(Value)),
                                    StrA(key), StrA(Value)>>),
                      None, c,
                      IF stored THEN Stored(db, key) ELSE db, cursor)

\* the status of out(key): 0 when the record was there
OutStatus(key) == IF key \in Range(db) THEN 0 ELSE 1

\* TyrantProtocol.out(key)
DoOut ==
    \E key \in KeyStrings :
        \E c \in {Command(inbuf \o <<OutStatus(key)>>, TRUE)} :
            Commanded("out", TRUE, Pack(OUT, <<IntA(Ulen(key)), StrA(key)>>),
                      Some(OutStatus(key)), c,
                      Removed(db, key), CursorRemoved(db, cursor, key))

\* the answer to get(key): the value, or status 1 when there is no record
ServerGet(d, key) ==
    IF key \in Range(d) THEN <<0>> \o BE(Len(Value), 4) \o Value ELSE <<1>>

\* TyrantProtocol.get(key)
DoGet ==
    \E key \in KeyStrings :
        \E c \in {Get(inbuf \o ServerGet(db, key))} :
            Commanded("get", TRUE, Pack(GET, <<IntA(Ulen(key)), StrA(key)>>),
                      Some(ServerGet(db, key)[1]), c, db, cursor)

\* the answer to misc: the status, the number of elements and the elements;
\* a refused call has no element
ServerMisc(status, elems) ==
    IF status = 0 THEN <<0>> \o BE(Len(elems), 4) \o PackList(elems, 1)
    ELSE <<status>> \o BE(0, 4)

\* the name of a function of misc: 'getlist'
MiscFunc == <<103, 101, 116, 108, 105, 115, 116>>

\* TyrantProtocol.misc('getlist', [key]): the server refuses, or answers
\* with the key and the value of the record, if any
DoMisc ==
    \E key \in KeyStrings, status \in {0} \cup FailCodes :
        \E c \in {Misc(inbuf \o ServerMisc(status,
                                           IF key \in Range(db) THEN <<key, Value>>
                                           ELSE <<>>))} :
            Commanded("misc", TRUE,
                      Pack(MISC, <<IntA(Len(MiscFunc)), IntA(0), IntA(1),
                                   StrA(MiscFunc), ListA(<<key>>)>>),
                      Some(status), c, db, cursor)

\* the state after iterinit with outcome c, by the generator g or by
\* another caller
Initiated(c, g) ==
    /\ cmd' = Recorded("iterinit", TRUE, Pack(ITERINIT, <<>>), Some(0), c)
    /\ inbuf' = c.rest
    /\ cursor' = Some(0)
    /\ iter' = [seen |-> <<>>, clean |-> TRUE]
    /\ gen' = g
    /\ UNCHANGED db
    /\ UNCHANGED queryVars
    /\ UNCHANGED pureVars

\* TyrantProtocol.iterinit()
DoIterinit ==
    \E c \in {Command(inbuf \o <<0>>, TRUE)} :
        Initiated(c, [gen EXCEPT !.clean = FALSE, !.yielded = <<>>])

\* the history after iternext with outcome c
Seen(h, c) ==
    IF h.clean /\ c.err = "" THEN [h EXCEPT !.seen = Append(@, Val(c.ret))] ELSE h

\* the state after iternext with outcome c, the server's iterator being at
\* cur before it, the history being h and the generator left as g
Iterated(c, cur, h, g) ==
    /\ cmd' = Recorded("iternext", TRUE, Pack(ITERNEXT, <<>>),
                       Some(ServerIterNext(db, cur)[1]), c)
    /\ inbuf' = c.rest
    /\ cursor' = CursorAfter(db, cur)
    /\ iter' = Seen(h, c)
    /\ gen' = g
    /\ UNCHANGED db
    /\ UNCHANGED queryVars
    /\ UNCHANGED pureVars

\* TyrantProtocol.iternext()
DoIternext ==
    \E c \in {IterNext(inbuf \o ServerIterNext(db, cursor))} :
        Iterated(c, cursor, iter, [gen EXCEPT !.clean = FALSE, !.yielded = <<>>])

\* the call Tyrant.iterkeys(): a generator object whose body has not started
DoIterkeys ==
    /\ gen.pc /= "start"
    /\ gen' = [pc |-> "start", yielded |-> <<>>, clean |-> FALSE]
    /\ UNCHANGED <<db, cursor, inbuf, cmd, iter>>
    /\ UNCHANGED queryVars
    /\ UNCHANGED pureVars

\* the generator g after the iternext of its loop had the outcome c: a key
\* is yielded, a TyrantError ends the generator, another exception leaves it
Looped(g, c) ==
    IF c.err = ""
    THEN [g EXCEPT !.pc = "yield",
                   !.yielded = IF g.clean THEN Append(@, Val(c.ret)) ELSE @]
    ELSE IF c.err \in TyrantErrors THEN [g EXCEPT !.pc = "done"]
    ELSE [g EXCEPT !.pc = "raised"]

\* next() on the new generator: iterinit, then the loop unless it raised
Start ==
    \E c \in {Command(inbuf \o <<0>>, TRUE)} :
        IF c.err /= ""
        THEN Initiated(c, [gen EXCEPT !.pc = "raised"])
        ELSE \E n \in {IterNext(c.rest \o ServerIterNext(db, Some(0)))} :
                 Iterated(n, Some(0), [seen |-> <<>>, clean |-> TRUE],
                          Looped([gen EXCEPT !.clean = TRUE], n))

\* next() on the suspended generator: the loop goes on
Resume ==
    \E n \in {IterNext(inbuf \o ServerIterNext(db, cursor))} :
        Iterated(n, cursor, iter, Looped(gen, n))

\* next() on the generator of iterkeys
DoNext ==
    /\ gen.pc \in {"start", "yield"}
    /\ IF gen.pc = "start" THEN Start ELSE Resume

NextSock ==
    \/ DoPut
    \/ DoPutnr
    \/ DoOut
    \/ DoGet
    \/ DoMisc
    \/ DoIterinit
    \/ DoIternext
    \/ DoIterkeys
    \/ DoNext

SpecSock == Init /\ [][NextSock]_vars

\* the consumer of the generator keeps asking for the next key
SpecSockFair == Init /\ [][NextSock]_vars /\ WF_vars(DoNext)

\* the arguments a command passes to _pack: integers, a long, byte strings
\* and lists of byte strings
PackArgValues ==
    << IntA(1), IntA(258), LongA(1), StrA(<<97>>), StrA(<<98, 99>>),
       ListA(<<>>), ListA(<<(<<97>>), (<<98, 99>>)>>) >>

\* the sequences of at most n of the values S
RECURSIVE SeqsUpTo(_, _)
SeqsUpTo(S, n) ==
    IF n = 0 THEN {<<>>}
    ELSE SeqsUpTo(S, n - 1)
         \cup {Append(q, x) : q \in {r \in SeqsUpTo(S, n - 1) : Len(r) = n - 1}, x \in S}

\* a call _pack(code, *args), the one the behaviour looks at
DoPack ==
    /\ call.fn = "none"
    /\ \E code \in {PUT, OUT}, ix \in SeqsUpTo(1..Len(PackArgValues), MaxArgs) :
          \E args \in {[i \in 1..Len(ix) |-> PackArgValues[ix[i]]]} :
              call' = [fn |-> "pack", code |-> code, args |-> args,
                       out |-> Pack(code, args)]
    /\ UNCHANGED <<rx, it>>
    /\ UNCHANGED queryVars
    /\ UNCHANGED sockVars

NextPack == DoPack

SpecPack == Init /\ [][NextPack]_vars

\* the bytes of a key of n bytes and of a value of n bytes
KeyBytes(n) == [i \in 1..n |-> 10 + i]
ValueBytes(n) == [i \in 1..n |-> 20 + i]

\* a string pair with both lengths first, and one with each length before
\* its string
PairLengthsFirst(k, v) == BE(Len(k), 4) \o BE(Len(v), 4) \o k \o v
PairInterleaved(k, v) == BE(Len(k), 4) \o k \o BE(Len(v), 4) \o v

\* a call get_strpair(), the one the behaviour looks at, when the server has
\* sent the first n bytes of a pair in one of the two layouts and of one
\* more byte
DoGetStrpair ==
    /\ call.fn = "none"
    /\ \E kl \in 0..MaxStr, vl \in 0..MaxStr, first \in BOOLEAN,
          n \in 0..(9 + 2 * MaxStr) :
          \E full \in {(IF first THEN PairLengthsFirst(KeyBytes(kl), ValueBytes(vl))
                        ELSE PairInterleaved(KeyBytes(kl), ValueBytes(vl))) \o <<9>>} :
              /\ n <= Len(full)
              /\ call' = [fn |-> "get_strpair", key |-> KeyBytes(kl),
                          value |-> ValueBytes(vl), first |-> first,
                          whole |-> n >= Len(full) - 1,
                          stream |-> SubSeq(full, 1, n),
                          out |-> GetStrpair(SubSeq(full, 1, n))]
    /\ UNCHANGED <<rx, it>>
    /\ UNCHANGED queryVars
    /\ UNCHANGED sockVars

NextStrpair == DoGetStrpair

SpecStrpair == Init /\ [][NextStrpair]_vars

\* a call adddouble(key, num), the one the behaviour looks at, on a key
\* that holds no number yet: the server answers with the number it was sent
DoAdddouble ==
    /\ call.fn = "none"
    /\ \E n \in 0..MaxInt, f \in 0..MaxFrac, t \in 0..9 :
          \E num \in {[int |-> n, frac |-> f, tenth |-> t]} :
              \E w \in {Pack(ADDDOUBLE, AdddoubleArgs(KeyBytes(1), num))} :
                  call' = [fn |-> "adddouble", num |-> num, written |-> w,
                           out |-> GetDouble(SubSeq(w, 7, 22))]
    /\ UNCHANGED <<rx, it>>
    /\ UNCHANGED queryVars
    /\ UNCHANGED sockVars

NextDouble == DoAdddouble

SpecDouble == Init /\ [][NextDouble]_vars

\* a call multi_add(values, chunk_size), the one the behaviour looks at
DoMultiAdd ==
    /\ call.fn = "none"
    /\ \E values \in SeqsUpTo({"a", "b"}, MaxValues), chunk_size \in 0..MaxChunk :
          \E r \in {MultiAdd(values, chunk_size, 0)} :
              call' = [fn |-> "multi_add", values |-> values,
                       chunk_size |-> chunk_size, keys |-> r.keys,
                       calls |-> r.calls]
    /\ UNCHANGED <<rx, it>>
    /\ UNCHANGED queryVars
    /\ UNCHANGED sockVars

NextMultiAdd == DoMultiAdd

SpecMultiAdd == Init /\ [][NextMultiAdd]_vars

\* prepared conditions handed to search: none, one, two
CondOptions ==
    << <<>>,
       << <<"price", RDBQCNUMGT, IntE(1)>> >>,
       << <<"price", RDBQCNUMGT, IntE(1)>>, <<"name", RDBQCSTREQ, StrE("a")>> >> >>

\* metasearch branches handed to search: None, no branch, one branch, three
\* branches of which the second is empty
BranchOptions ==
    << None,
       Some(<<>>),
       Some(<< CondOptions[2] >>),
       Some(<< CondOptions[2], CondOptions[1], CondOptions[3] >>) >>

\* a call search(conditions, ...) by the user of the protocol object, the one
\* the behaviour looks at
DoSearchCall ==
    /\ call.fn = "none"
    /\ \E c \in 1..Len(CondOptions), b \in 1..Len(BranchOptions),
          ms_type \in {None, Some(TDBMSUNION), Some(TDBMSDIFF)},
          columns \in {None, Some(<<>>), Some(<<"a", "b">>)},
          order_column \in {None, Some("name")},
          limit \in {None, Some(0), Some(2)}, offset \in {None, Some(0), Some(1)},
          out \in BOOLEAN, count \in BOOLEAN, hint \in BOOLEAN :
          \E p \in {[conditions |-> CondOptions[c], limit |-> limit,
                     offset |-> offset, order_type |-> RDBQONUMDESC,
                     order_column |-> order_column,
                     ms_conditions |-> BranchOptions[b], ms_type |-> ms_type,
                     columns |-> columns, out |-> out, count |-> count,
                     hint |-> hint]} :
              call' = [fn |-> "search", p |-> p, err |-> Search(p).err,
                       args |-> Search(p).args, sent |-> Search(p).sent]
    /\ UNCHANGED <<rx, it>>
    /\ UNCHANGED queryVars
    /\ UNCHANGED sockVars

NextSearch == DoSearchCall

SpecSearch == Init /\ [][NextSearch]_vars

\* the expressions of the conditions compiled: booleans, numbers, strings
\* and lists of none to three elements, of numbers, of strings and mixed
CompileExprs ==
    << BoolE(TRUE), BoolE(FALSE), IntE(1), IntE(58), StrE("a"), StrE(""),
       ListE(<<>>),
       ListE(<<IntE(58)>>),
       ListE(<<IntE(58), IntE(120)>>),
       ListE(<<IntE(1), IntE(2), IntE(3)>>),
       ListE(<<IntE(1), StrE("a")>>),
       ListE(<<StrE("a"), IntE(1)>>),
       ListE(<<StrE("a")>>),
       ListE(<<StrE("a"), StrE("b")>>),
       ListE(<<BoolE(TRUE), IntE(2)>>) >>

\* the keywords: a column with each lookup, with an unknown one and with none
CompileKeys ==
    {<<"x", l>> : l \in LookupNames \cup {"foo"}} \cup {<<"x">>}

\* the state after the one condition cs[1] that a filter or exclude call
\* added was compiled
Compiled(negate, own, via, cs) ==
    /\ call' = [fn |-> "compile", negate |-> negate, own |-> own, via |-> via,
                cond |-> cs[1], err |-> Prepare(cs[1]).err,
                triple |-> Prepare(cs[1]).triple]
    /\ UNCHANGED <<rx, it>>
    /\ UNCHANGED queryVars
    /\ UNCHANGED sockVars

\* filter(key=expr) or exclude(key=expr), and the prepare of its condition
DoCompileKw ==
    /\ call.fn = "none"
    /\ \E negate \in BOOLEAN, key \in CompileKeys, e \in 1..Len(CompileExprs) :
          \E cs \in {FilterConds(negate, <<>>, << <<key, CompileExprs[e]>> >>)} :
              Compiled(negate, FALSE, "kw", cs)

\* filter(c) or exclude(c) with a Condition c, negated itself or not, and the
\* prepare of the condition added
DoCompileArg ==
    /\ call.fn = "none"
    /\ \E negate \in BOOLEAN, own \in BOOLEAN, key \in CompileKeys,
          e \in 1..Len(CompileExprs) :
          \E cs \in {FilterConds(negate, <<ConditionInit(key, CompileExprs[e], own)>>,
                                 <<>>)} :
              Compiled(negate, own, "arg", cs)

NextCompile ==
    \/ DoCompileKw
    \/ DoCompileArg

SpecCompile == Init /\ [][NextCompile]_vars

NextRecv ==
    \/ RecvCall
    \/ RecvStep

SpecRecv == Init /\ [][NextRecv]_vars

\* the loop runs on: every socket read returns
SpecRecvFair == Init /\ [][NextRecv]_vars /\ WF_vars(RecvStep)

\* builder calls and loops over the queries built
NextIter ==
    \/ FilterKw(MaxEvalQueries)
    \/ FilterArg(MaxEvalQueries)
    \/ DoColumns(MaxEvalQueries)
    \/ DoOrderBy(MaxEvalQueries)
    \/ DoUnion(MaxEvalQueries)
    \/ DoIntersect(MaxEvalQueries)
    \/ DoMinus(MaxEvalQueries)
    \/ IterStart
    \/ IterStep

SpecIter == Init /\ [][NextIter]_vars

\* the loop runs on: every q[i] returns or raises
SpecIterFair == Init /\ [][NextIter]_vars /\ WF_vars(IterStep)

\* the builder alone: up to MaxQueries Query objects
NextBuild ==
    \/ FilterKw(MaxQueries)
    \/ FilterArg(MaxQueries)
    \/ DoColumns(MaxQueries)
    \/ DoOrderBy(MaxQueries)
    \/ DoUnion(MaxQueries)
    \/ DoIntersect(MaxQueries)
    \/ DoMinus(MaxQueries)

SpecBuild == Init /\ [][NextBuild]_vars

\* builder calls and evaluations: up to MaxEvalQueries Query objects
Next ==
    \/ FilterKw(MaxEvalQueries)
    \/ FilterArg(MaxEvalQueries)
    \/ DoColumns(MaxEvalQueries)
    \/ DoOrderBy(MaxEvalQueries)
    \/ DoUnion(MaxEvalQueries)
    \/ DoIntersect(MaxEvalQueries)
    \/ DoMinus(MaxEvalQueries)
    \/ DoGetItem
    \/ DoDelete
    \/ DoProtoSearch

Spec == Init /\ [][Next]_vars

----------------------------------------------------------------------------
(* Properties of the query layer. *)

BuilderOps == {"filter", "exclude", "columns", "order_by", "union", "intersect", "minus"}

MsOps == {"union", "intersect", "minus"}

MethodOf(op) ==
    CASE op = "union" -> TDBMSUNION
      [] op = "intersect" -> TDBMSISECT
      [] op = "minus" -> TDBMSDIFF

\* what a Query holds, with the lists it refers to read from the heap H
QueryView(q, H) ==
    [literal    |-> q.literal,
     conditions |-> H.cond[q.conditions],
     ordering   |-> q.ordering,
     columns    |-> IF q.columns = None THEN None ELSE Some(H.col[Val(q.columns)]),
     ms_type    |-> q.ms_type,
     branches   |-> IF q.ms_conditions = None THEN None
                    ELSE Some([j \in 1..Len(H.ms[Val(q.ms_conditions)]) |->
                                  H.cond[H.ms[Val(q.ms_conditions)][j]]])]

\* the condition lists a Query refers to: its own and its branches
CondIdsOf(q, H) ==
    {q.conditions}
    \cup (IF q.ms_conditions = None THEN {} ELSE Range(H.ms[Val(q.ms_conditions)]))

\* the number of metasearch branches of a Query
BranchCount(q, H) ==
    IF TruthyMsList(H, q.ms_conditions) THEN Len(H.ms[Val(q.ms_conditions)]) ELSE 0

\* no list object is referred to by two Query objects, or twice by one
NoSharing ==
    /\ \A i \in 1..Len(queries) :
          /\ queries[i].ms_conditions /= None =>
                /\ Cardinality(Range(msLists[Val(queries[i].ms_conditions)]))
                      = Len(msLists[Val(queries[i].ms_conditions)])
                /\ queries[i].conditions
                      \notin Range(msLists[Val(queries[i].ms_conditions)])
    /\ \A i, j \in 1..Len(queries) :
          i /= j =>
              /\ CondIdsOf(queries[i], Heap) \cap CondIdsOf(queries[j], Heap) = {}
              /\ queries[i].columns /= None => queries[i].columns /= queries[j].columns
              /\ queries[i].ms_conditions /= None =>
                     queries[i].ms_conditions /= queries[j].ms_conditions

\* what evaluating the whole of q sends
FullSearch(q, H) == DoSearch(q, H, None, None, None, FALSE, FALSE, FALSE)

\* C1: every builder call returns a new Query and leaves every Query that
\* existed before it unchanged in its condition list, ordering, column
\* projection, metasearch type and branches, so that each of them still sends
\* the same search arguments; no list object is shared between two queries.
C1_BuildersCopy ==
    [][/\ \A i \in 1..Len(queries) :
             /\ i <= Len(queries')
             /\ QueryView(queries'[i], Heap') = QueryView(queries[i], Heap)
             /\ FullSearch(queries'[i], Heap') = FullSearch(queries[i], Heap)
       /\ last'.err = "" =>
             /\ last'.op \in BuilderOps
             /\ Len(queries') = Len(queries) + 1
             /\ last'.res = Len(queries')
       /\ NoSharing']_vars

\* two queries derived from the base by filter, each with its own condition,
\* and the base still without one
C1_Witness ==
    /\ Len(queries) = 3
    /\ last.op = "filter" /\ last.src = 1 /\ last.res = 3
    /\ condLists[queries[1].conditions] = <<>>
    /\ Len(condLists[queries[2].conditions]) = 1
    /\ Len(condLists[queries[3].conditions]) = 1
    /\ condLists[queries[2].conditions] /= condLists[queries[3].conditions]

\* C2 as stated: evaluating again the window (offset, limit) that the same
\* Query was just searched for issues no search call.
C2_Memoized ==
    (last.op = "getitem" /\ last.repeat) => last.searchCalls = 0

\* C2: a Query keeps no results: evaluating again the window (offset, limit)
\* that the same Query was just searched for issues one search call, like the
\* first evaluation.
C2_NoCache ==
    (last.op = "getitem" /\ last.repeat) => last.searchCalls = 1

\* a repeated evaluation of a derived Query that searched again
C2_Witness ==
    /\ last.op = "getitem" /\ last.repeat
    /\ last.k = SliceKey(Some(1), Some(2))
    /\ last.err = ""
    /\ last.searchCalls = 1

\* the conditions and branches of q compile
Evaluable(q, H) ==
    /\ PrepareAll(H.cond[q.conditions]).err = ""
    /\ TruthyMsList(H, q.ms_conditions) =>
          PrepareBranches(H, Val(q.ms_conditions)).err = ""

C4_OneMetasearchType ==
    /\ \A i \in 1..Len(queries) :
          /\ queries[i].ms_type \in {None, Some(TDBMSUNION), Some(TDBMSISECT),
                                     Some(TDBMSDIFF)}
          /\ queries[i].ms_type /= None <=> BranchCount(queries[i], Heap) >= 1
    /\ last.op \in MsOps =>
          IF queries[last.src].ms_type \in {None, Some(MethodOf(last.op))}
          THEN /\ last.err = ""
               /\ last.res = Len(queries)
               /\ queries[last.res].ms_type = Some(MethodOf(last.op))
               /\ BranchCount(queries[last.res], Heap)
                     = BranchCount(queries[last.src], Heap) + 1
          ELSE /\ last.err = "AssertionError"
               /\ last.res = 0

\* intersect on a Query that has a union branch was refused
C4_Witness ==
    /\ last.op = "intersect"
    /\ last.err = "AssertionError"
    /\ queries[last.src].ms_type = Some(TDBMSUNION)
    /\ BranchCount(queries[last.src], Heap) = 1

\* the setlimit argument of a search
SetLimit(limit, offset) == <<"setlimit", ToString(limit), ToString(offset)>>

\* C5: q[i] with i >= 0 searches with offset i and limit 1; q[a:b] with
\* 0 <= a < b searches with offset a and limit b - a; q[:] and q[0:] search
\* with offset 0 and no limit, and no setlimit argument is sent.
C5_Window ==
    (last.op = "getitem" /\ Evaluable(queries[last.src], Heap)) =>
        /\ (~last.k.slice /\ last.k.i >= 0) =>
              /\ last.searchCalls = 1
              /\ last.offset = Some(last.k.i) /\ last.limit = Some(1)
              /\ SetLimit(1, last.k.i) \in Range(last.args)
        /\ (last.k.slice /\ last.k.start /= None /\ last.k.stop /= None
            /\ 0 <= Val(last.k.start) /\ Val(last.k.start) < Val(last.k.stop)) =>
              /\ last.searchCalls = 1
              /\ last.offset = last.k.start
              /\ last.limit = Some(Val(last.k.stop) - Val(last.k.start))
              /\ SetLimit(Val(last.k.stop) - Val(last.k.start), Val(last.k.start))
                    \in Range(last.args)
        /\ (last.k.slice /\ last.k.start \in {None, Some(0)} /\ last.k.stop = None) =>
              /\ last.searchCalls = 1
              /\ last.err = ""
              /\ last.offset = Some(0) /\ last.limit = None
              /\ \A i \in 1..Len(last.args) : last.args[i][1] /= "setlimit"

\* q[1:2] was evaluated on a Query with a condition
C5_Witness ==
    /\ last.op = "getitem"
    /\ last.k = SliceKey(Some(1), Some(2))
    /\ Len(condLists[queries[last.src].conditions]) = 1
    /\ last.searchCalls = 1
    /\ SetLimit(1, 1) \in Range(last.args)

\* C6 as stated: search with a non-zero offset and no limit (None or 0) raises
\* ValueError and sends nothing.  It fails for a negative offset, which the
\* sanity assertion of search refuses first, with AssertionError.
C6_NonZeroOffset ==
    (last.op = "search" /\ last.offset /= None /\ Val(last.offset) /= 0
     /\ ~TruthyInt(last.limit)) =>
        last.err = "ValueError" /\ last.sent = 0

\* C6: search with an offset above zero and no limit (None or 0) raises
\* ValueError and sends nothing, and one below zero raises AssertionError and
\* sends nothing; the slice q[a:] with a > 0 raises ValueError without a
\* search call.
C6_OffsetNeedsLimit ==
    /\ (last.op = "search" /\ last.offset /= None /\ Val(last.offset) > 0
        /\ ~TruthyInt(last.limit)) =>
          last.err = "ValueError" /\ last.sent = 0
    /\ (last.op = "search" /\ last.offset /= None /\ Val(last.offset) < 0
        /\ ~TruthyInt(last.limit)) =>
          last.err = "AssertionError" /\ last.sent = 0
    /\ (last.op = "getitem" /\ last.k.slice /\ last.k.start /= None
        /\ Val(last.k.start) > 0 /\ last.k.stop = None) =>
          last.err = "ValueError" /\ last.sent = 0 /\ last.searchCalls = 0

\* search was called with offset 1 and limit 0
C6_Witness ==
    /\ last.op = "search"
    /\ last.offset = Some(1) /\ last.limit = Some(0)
    /\ last.err = "ValueError"
    /\ last.sent = 0

\* a key with a negative index or bound
NegativeKey(k) ==
    IF k.slice
    THEN (k.start /= None /\ Val(k.start) < 0) \/ (k.stop /= None /\ Val(k.stop) < 0)
    ELSE k.i < 0

\* C7: q[i] with i < 0 and q[a:b] with a < 0 or b < 0 raise ValueError, send
\* no request and leave every Query unchanged.
C7_NegativeRejected ==
    [][(last'.op = "getitem" /\ NegativeKey(last'.k)) =>
          /\ last'.err = "ValueError"
          /\ last'.sent = 0 /\ last'.searchCalls = 0
          /\ UNCHANGED <<queries, condLists, colLists, msLists>>]_vars

\* q[0:-1] was refused
C7_Witness ==
    /\ last.op = "getitem"
    /\ last.k = SliceKey(Some(0), Some(-1))
    /\ last.err = "ValueError"
    /\ last.sent = 0

\* C8: a slice q[a:b] with 0 <= b < a raises ValueError before any request
\* is sent.
C8_StopBeforeStart ==
    (last.op = "getitem" /\ last.k.slice /\ last.k.start /= None
     /\ last.k.stop /= None /\ 0 <= Val(last.k.stop)
     /\ Val(last.k.stop) < Val(last.k.start)) =>
        last.err = "ValueError" /\ last.sent = 0

----------------------------------------------------------------------------
(* Properties of the socket layer. *)

\* the keys of the database as iternext returns them
DecodedKeys(d) == [i \in 1..Len(d) |-> Decode(d[i]).text]

\* s is the beginning of t
IsPrefix(s, t) == Len(s) <= Len(t) /\ s = SubSeq(t, 1, Len(s))

\* while no record is added or removed: the keys returned since iterinit are
\* the first keys of the database, each once; an iternext that raises does so
\* after the last key and with a TyrantError; iterinit starts over; iterkeys
\* yields the keys in turn and ends after the last
IterationInOrder ==
    /\ iter.clean => IsPrefix(iter.seen, DecodedKeys(db))
    /\ (iter.clean /\ cmd.op = "iternext") =>
          IF cmd.err = ""
          THEN /\ Len(iter.seen) >= 1
               /\ cmd.ret = Some(iter.seen[Len(iter.seen)])
          ELSE /\ cmd.err \in TyrantErrors
               /\ iter.seen = DecodedKeys(db)
    /\ (cmd.op = "iterinit" /\ cmd.err = "") =>
          iter.clean /\ iter.seen = <<>> /\ cursor = Some(0)
    /\ gen.clean =>
          /\ gen.pc \in {"yield", "done"}
          /\ IsPrefix(gen.yielded, DecodedKeys(db))
          /\ gen.pc = "yield" => Len(gen.yielded) >= 1
          /\ gen.pc = "done" => gen.yielded = DecodedKeys(db)

\* C9: with the database not modified, the iternext calls after iterinit
\* return every key exactly once, in the server's order, and the call after
\* the last key raises a TyrantError; a new iterinit starts again from the
\* first key; iterkeys yields each key once and then terminates.
C9_Iteration ==
    /\ []IterationInOrder
    /\ (gen.pc = "start") ~> (gen.pc /= "start")
    /\ (gen.pc = "yield" /\ gen.clean) ~> (gen.pc = "done" \/ ~gen.clean)

\* iterkeys has ended after yielding both keys of the database
C9_Witness ==
    /\ gen.pc = "done" /\ gen.clean
    /\ Len(db) = 2
    /\ gen.yielded = DecodedKeys(db)
    /\ cmd.op = "iternext" /\ cmd.err = "InvalidOperation"

\* the opcode of a command
Opcode(op) ==
    CASE op = "put" -> PUT
      [] op = "putnr" -> PUTNR
      [] op = "out" -> OUT
      [] op = "get" -> GET
      [] op = "misc" -> MISC
      [] op = "iterinit" -> ITERINIT
      [] op = "iternext" -> ITERNEXT

\* C10: a command sent with sync=True writes the packed request and its send
\* reads exactly one status byte: with status 0 the send returns normally,
\* with any other status the send raises and has read nothing but that byte
\* (misc alone reads on, in its finally clause); putnr, sent with sync=False,
\* writes its request, reads nothing and raises nothing.
C10_StatusByte ==
    cmd.op /= "none" =>
        /\ Len(cmd.written) >= 2
        /\ cmd.written[1] = MAGIC_NUMBER
        /\ cmd.written[2] = Opcode(cmd.op)
        /\ cmd.sync <=> cmd.op /= "putnr"
        /\ cmd.sync =>
              /\ cmd.status /= None
              /\ cmd.sendReads = 1
              /\ Val(cmd.status) = 0 => cmd.err = ""
              /\ Val(cmd.status) /= 0 =>
                    /\ cmd.err \in TyrantErrors \cup {"ValueError"}
                    /\ cmd.op /= "misc" => cmd.reads = 1
                    /\ cmd.ret = None
        /\ ~cmd.sync =>
              /\ cmd.reads = 0
              /\ cmd.err = ""
        /\ inbuf = <<>>

\* a put the server refused raised after one byte
C10_Witness ==
    /\ cmd.op = "put" /\ cmd.sync
    /\ cmd.status = Some(1)
    /\ cmd.err = "InvalidOperation"
    /\ cmd.reads = 1

----------------------------------------------------------------------------
\* the error kind the documentation of the server gives a status byte
KindOfStatus(c) ==
    CASE c = 1 -> "InvalidOperation"
      [] c = 2 -> "HostNotFound"
      [] c = 3 -> "ConnectionRefused"
      [] c = 4 -> "SendError"
      [] c = 5 -> "ReceiveError"
      [] c = 6 -> "RecordExists"
      [] c = 7 -> "RecordNotFound"
      [] OTHER -> "unmapped"

----------------------------------------------------------------------------
\* C12: recv(n) returns exactly the first n bytes of the stream, in order,
\* however the socket cuts the stream; no read asks for more than is still
\* missing, so the bytes after the n-th stay in the stream; when the peer
\* closes before n bytes it raises socket.error and returns nothing; and the
\* loop ends when every read returns.  The result is that of Recv.
RecvExact ==
    /\ rx.pc = "done" =>
          /\ Len(rx.ret) = rx.bytes
          /\ rx.ret = SubSeq(rx.sent, 1, rx.bytes)
          /\ rx.stream = SubSeq(rx.sent, rx.bytes + 1, Len(rx.sent))
          /\ Recv(rx.sent, rx.bytes).err = ""
          /\ Recv(rx.sent, rx.bytes).data = rx.ret
          /\ Recv(rx.sent, rx.bytes).rest = rx.stream
    /\ rx.pc = "raised" =>
          /\ Len(rx.sent) < rx.bytes
          /\ rx.err = "socket.error"
          /\ rx.ret = <<>>
          /\ Recv(rx.sent, rx.bytes).err = "socket.error"
    /\ rx.pc \in {"loop", "done", "raised"} =>
          /\ rx.asked <= rx.missing
          /\ Len(rx.d) <= rx.bytes
          /\ rx.d \o rx.stream = rx.sent

C12_RecvExact ==
    /\ []RecvExact
    /\ (rx.pc = "loop") ~> (rx.pc \in {"done", "raised"})

\* recv(3) has returned after three reads of one byte, two bytes left unread
C12_Witness ==
    /\ rx.pc = "done"
    /\ rx.bytes = 3 /\ rx.reads = 3
    /\ rx.ret = <<1, 2, 3>>
    /\ rx.stream = <<4, 5>>

----------------------------------------------------------------------------
\* the concatenation of a sequence of sequences
RECURSIVE Concat(_)
Concat(ss) == IF Len(ss) = 0 THEN <<>> ELSE ss[1] \o Concat(Tail(ss))

\* the numeric arguments of a call, and the others, each in argument order
NumericArgs(args) == SelectSeq(args, LAMBDA a : a.t \in {"int", "long"})
PayloadArgs(args) == SelectSeq(args, LAMBDA a : a.t \in {"str", "list"})

\* the bytes of one payload argument: a string as it is, a list element by
\* element, each after its length in four bytes
PayloadOf(a) ==
    IF a.t = "str" THEN a.v
    ELSE Concat([j \in 1..Len(a.v) |-> BE(Len(a.v[j]), 4) \o a.v[j]])

\* the width of the field of a numeric argument: 4 bytes for an int (a
\* Python long, which only adddouble passes, takes 8)
FieldWidth(a) == IF a.t = "int" THEN 4 ELSE 8

\* the offset in the request of the field of numeric argument k: after the
\* two header bytes and the fields before it
RECURSIVE FieldOffset(_, _)
FieldOffset(nums, k) ==
    IF k = 1 THEN 2 ELSE FieldOffset(nums, k - 1) + FieldWidth(nums[k - 1])

\* C13: the packed request is the magic byte 0xC8, the opcode, one
\* big-endian unsigned 32-bit field per integer argument in argument order,
\* then the bytes of the string arguments in argument order, each element of
\* a list as a 4-byte big-endian length and its bytes; every field precedes
\* every payload byte, however the arguments are interleaved.
C13_PackLayout ==
    call.fn = "pack" =>
        LET nums == NumericArgs(call.args)
            pay == PayloadArgs(call.args)
            fields == Concat([k \in 1..Len(nums) |-> BE(nums[k].v, FieldWidth(nums[k]))])
            payload == Concat([k \in 1..Len(pay) |-> PayloadOf(pay[k])])
        IN /\ call.out[1] = 200
           /\ call.out[2] = call.code
           /\ call.out = <<200, call.code>> \o fields \o payload
           /\ \A k \in 1..Len(nums) :
                 FromBE(SubSeq(call.out, FieldOffset(nums, k) + 1,
                               FieldOffset(nums, k) + FieldWidth(nums[k])))
                    = nums[k].v
           /\ \A k \in 1..Len(nums) :
                 nums[k].t = "int" =>
                    SubSeq(call.out, FieldOffset(nums, k) + 1, FieldOffset(nums, k) + 4)
                       = <<0, 0, nums[k].v \div 256, nums[k].v % 256>>

\* a string was passed before two integers and is packed after them
C13_Witness ==
    /\ call.fn = "pack"
    /\ Len(call.args) = 3
    /\ call.args[1].t = "str" /\ call.args[1].v = <<97>>
    /\ call.args[2].t = "int" /\ call.args[2].v = 258
    /\ call.args[3].t = "int" /\ call.args[3].v = 1
    /\ call.out = <<200, PUT, 0, 0, 1, 2, 0, 0, 0, 1, 97>>

----------------------------------------------------------------------------
\* the number of conditions in the first j branches
RECURSIVE CondsBefore(_, _)
CondsBefore(branches, j) ==
    IF j = 0 THEN 0 ELSE CondsBefore(branches, j - 1) + Len(branches[j])

\* the place of the setting entries after the conditions
SettingRank(kind) ==
    CASE kind = "get" -> 1
      [] kind = "setorder" -> 2
      [] kind = "setlimit" -> 3
      [] kind = "out" -> 4
      [] kind = "count" -> 5
      [] kind = "hint" -> 6
      [] OTHER -> 0

\* entry e is the addcond entry of the prepared condition t
IsAddCondOf(e, t) ==
    /\ Len(e) = 4
    /\ e[1] = "addcond" /\ e[2] = t[1] /\ e[3] = ToString(t[2])
    /\ e[4] = Unicode(t[3])

\* the args of a search with the arguments p are in the order of C14
ArgsInOrder(p, args) ==
    LET nc == Len(p.conditions)
        ms == p.ms_type /= None /\ p.ms_conditions /= None
              /\ Len(Val(p.ms_conditions)) > 0
        branches == IF ms THEN Val(p.ms_conditions) ELSE <<>>
        nb == Len(branches)
        msLen == IF ms THEN 1 + nb + CondsBefore(branches, nb) ELSE 0
        \* the index of the 'next' entry of branch j
        nextAt(j) == nc + 1 + j + CondsBefore(branches, j - 1)
        tail == SubSeq(args, nc + msLen + 1, Len(args))
        has(kind) == \E i \in 1..Len(tail) : tail[i][1] = kind
        the(kind) == tail[CHOOSE i \in 1..Len(tail) : tail[i][1] = kind]
    IN /\ Len(args) >= nc + msLen
       /\ \A i \in 1..nc : IsAddCondOf(args[i], p.conditions[i])
       /\ ms => args[nc + 1] = <<"mstype", ToString(Val(p.ms_type))>>
       /\ \A j \in 1..nb :
             /\ args[nextAt(j)] = <<"next">>
             /\ \A i \in 1..Len(branches[j]) :
                   IsAddCondOf(args[nextAt(j) + i], branches[j][i])
       /\ \A i \in 1..Len(tail) : SettingRank(tail[i][1]) > 0
       /\ \A i, j \in 1..Len(tail) :
             i < j => SettingRank(tail[i][1]) < SettingRank(tail[j][1])
       /\ has("get") <=> (p.columns /= None /\ Len(Val(p.columns)) > 0)
       /\ has("get") => the("get") = <<"get">> \o Val(p.columns)
       /\ has("setorder") <=> (p.order_column /= None /\ Val(p.order_column) /= "")
       /\ has("setorder") =>
             the("setorder") = <<"setorder", Val(p.order_column), ToString(p.order_type)>>
       /\ has("setlimit") <=> (p.limit /= None /\ Val(p.limit) /= 0)
       /\ has("setlimit") =>
             the("setlimit") = <<"setlimit", ToString(Val(p.limit)),
                                 ToString(Val(p.offset))>>
       /\ has("out") <=> p.out
       /\ has("count") <=> p.count
       /\ has("hint") <=> p.hint

\* C14: search hands misc('search', args) the args in this order: an addcond
\* entry per primary condition; if a metasearch type is given and there is a
\* branch, one mstype entry and per branch a next entry and the addcond
\* entries of the branch; a get entry if columns are given; a setorder entry
\* if an order column is given; a setlimit entry if limit is not zero; then
\* out, count and hint for each flag set.  One request is sent.
C14_SearchArgs ==
    (call.fn = "search" /\ call.err = "") =>
        call.sent = 1 /\ ArgsInOrder(call.p, call.args)

\* a search with two conditions, three branches, columns, an order, a limit
\* and the three flags
C14_Witness ==
    /\ call.fn = "search" /\ call.err = ""
    /\ Len(call.args) = 15
    /\ call.args[3] = <<"mstype", "2">>
    /\ call.args[4] = <<"next">>
    /\ call.args[6] = <<"next">>
    /\ call.args[7] = <<"next">>
    /\ call.args[10] = <<"get", "a", "b">>
    /\ call.args[11] = <<"setorder", "name", "3">>
    /\ call.args[12] = <<"setlimit", "2", "1">>
    /\ call.args[15] = <<"hint">>

----------------------------------------------------------------------------
\* the negate bit of an operator code, and the code without it
NegateBit(op) == (op \div RDBQCNEGATE) % 2 = 1
BaseOp(op) == op % RDBQCNEGATE

\* the lookup name of the condition compiled
CompiledLookup == call.cond.lookup[1]

\* the negation the caller asked for: exclude, or a Condition negated itself,
\* but not both
CallerNegation == call.own /= call.negate

\* C15: the negate bit of a compiled condition is the caller's negation XOR
\* the negation carried by exists=False: filter(x__exists=False) and
\* exclude(x__exists=True) compile to RDBQCSTRRX with the bit and an empty
\* expression, exclude(x__exists=False) and filter(x__exists=True) to
\* RDBQCSTRRX without it; for every other lookup exclude compiles to the
\* operator of filter with the bit set, and to the same expression.
C15_NegateBit ==
    call.fn = "compile" =>
        LET plain == Prepare([call.cond EXCEPT !.negate = FALSE])
        IN /\ call.err = plain.err
           /\ call.err = "" =>
                 IF CompiledLookup = "exists"
                 THEN /\ NegateBit(call.triple[2])
                            <=> (CallerNegation /= (~call.cond.expr.v))
                      /\ BaseOp(call.triple[2]) = RDBQCSTRRX
                      /\ call.triple[3].t = "str" /\ call.triple[3].v = ""
                 ELSE /\ ~NegateBit(plain.triple[2])
                      /\ NegateBit(call.triple[2]) <=> CallerNegation
                      /\ BaseOp(call.triple[2]) = plain.triple[2]
                      /\ call.triple[3] = plain.triple[3]

\* exclude(x__exists=True) was compiled to RDBQCSTRRX with the negate bit
C15_Witness ==
    /\ call.fn = "compile" /\ call.via = "kw" /\ call.negate
    /\ CompiledLookup = "exists"
    /\ call.cond.expr.t = "bool" /\ call.cond.expr.v
    /\ call.err = ""
    /\ call.triple[2] = RDBQCSTRRX + RDBQCNEGATE
    /\ call.triple[3].v = ""

----------------------------------------------------------------------------
\* e is a list of exactly two numbers
TwoNumbers(e) ==
    /\ e.t = "list"
    /\ Len(e.v) = 2
    /\ \A i \in 1..2 : e.v[i].t \in {"int", "bool"}

\* C16: compiling between raises ValueError whenever the expression is not
\* an iterable of exactly two numbers.
C16_BetweenTwoNumbers ==
    (call.fn = "compile" /\ CompiledLookup = "between"
     /\ ~TwoNumbers(call.cond.expr)) =>
        call.err = "ValueError"

\* whether e is a string, a number, or a list whose first element is one
IsStrings(e) == e.t = "list" /\ Len(e.v) > 0 /\ e.v[1].t = "str"
IsNumbers(e) == e.t = "list" /\ Len(e.v) > 0 /\ e.v[1].t \in {"int", "bool"}
IsOneString(e) == e.t = "str"
IsOneNumber(e) == e.t \in {"int", "bool"}

\* C17: the definitions of a lookup are tried in declared order and the
\* first that accepts the expression is used: contains and like take the
\* substring / phrase operator for a string and the all-tokens operator for
\* a list of strings; in takes RDBQCSTROREQ for strings and RDBQCNUMOREQ
\* for numbers; is takes RDBQCNUMEQ for a number and RDBQCSTREQ otherwise;
\* when no definition accepts the expression, ValueError is raised.
C17_FirstDefinition ==
    (call.fn = "compile" /\ CompiledLookup \in LookupNames) =>
        LET e == call.cond.expr
            defs == LOOKUP_DEFINITIONS(CompiledLookup)
            accepting == {i \in 1..Len(defs) : Accepts(defs[i], e)}
            first == CHOOSE i \in accepting : \A j \in accepting : i <= j
            op == BaseOp(call.triple[2])
        IN /\ accepting = {} => call.err = "ValueError"
           /\ call.err = "" =>
                 /\ accepting /= {}
                 /\ op = defs[first].operator
                 /\ (CompiledLookup = "contains" /\ IsOneString(e)) => op = RDBQCSTRINC
                 /\ (CompiledLookup = "contains" /\ IsStrings(e)) => op = RDBQCSTRAND
                 /\ (CompiledLookup = "like" /\ IsOneString(e)) => op = RDBQCFTSPH
                 /\ (CompiledLookup = "like" /\ IsStrings(e)) => op = RDBQCFTSAND
                 /\ (CompiledLookup = "in" /\ IsStrings(e)) => op = RDBQCSTROREQ
                 /\ (CompiledLookup = "in" /\ IsNumbers(e)) => op = RDBQCNUMOREQ
                 /\ (CompiledLookup = "is" /\ IsOneNumber(e)) => op = RDBQCNUMEQ
                 /\ (CompiledLookup = "is" /\ ~IsOneNumber(e)) => op = RDBQCSTREQ
           /\ (CompiledLookup \in {"contains", "like"}
               /\ (IsOneString(e) \/ IsStrings(e))) => call.err = ""
           /\ (CompiledLookup = "in" /\ (IsStrings(e) \/ IsNumbers(e))) => call.err = ""
           /\ CompiledLookup = "is" => call.err = ""

\* filter(x=1) was compiled with RDBQCNUMEQ, the first definition of is
C17_Witness ==
    /\ call.fn = "compile" /\ call.via = "kw" /\ ~call.negate
    /\ CompiledLookup = "is"
    /\ call.cond.expr.t = "int"
    /\ call.err = ""
    /\ call.triple[2] = RDBQCNUMEQ

----------------------------------------------------------------------------
\* the elements 1..k of a list as one string, a comma and a space between
\* two of them
RECURSIVE Folded(_, _)
Folded(elems, k) ==
    IF k = 0 THEN ""
    ELSE IF k = 1 THEN Unicode(elems[1])
    ELSE Folded(elems, k - 1) \o ", " \o Unicode(elems[k])

\* the expression of the compiled triple is e
SentAs(e) == call.triple[3].t = e.t /\ call.triple[3].v = e.v

\* between [a, b] gives RDBQCNUMBT and 'a, b', and a list is folded into one
\* string of its elements, in order, joined with ', '
ListsFolded ==
    (call.fn = "compile" /\ call.err = "") =>
        /\ (CompiledLookup = "between" /\ TwoNumbers(call.cond.expr)) =>
              /\ BaseOp(call.triple[2]) = RDBQCNUMBT
              /\ BaseOp(call.triple[2]) = 13
              /\ SentAs(StrE(Unicode(call.cond.expr.v[1]) \o ", "
                             \o Unicode(call.cond.expr.v[2])))
        /\ call.cond.expr.t = "list" =>
              SentAs(StrE(Folded(call.cond.expr.v, Len(call.cond.expr.v))))

----------------------------------------------------------------------------
\* the lookup of condition c is not in the table
UnknownLookup(c) == ~(Len(c.lookup) = 1 /\ c.lookup[1] \in LookupNames)

\* the first condition of q that does not compile has an unknown lookup
UnknownFirst(q, H) ==
    LET conds == H.cond[q.conditions]
    IN \E i \in 1..Len(conds) :
          /\ UnknownLookup(conds[i])
          /\ \A j \in 1..(i - 1) : Prepare(conds[j]).err = ""

\* C19: a condition with a lookup that is not in the table makes no filter
\* or exclude call fail; the evaluation of the query raises NameError, makes
\* no search call, sends no request and leaves every Query unchanged.
C19_UnknownLookup ==
    [][/\ last'.op \in {"filter", "exclude"} => last'.err = ""
       /\ (last'.op = "getitem" /\ KeyCheck(last'.k) = ""
           /\ UnknownFirst(queries[last'.src], Heap)) =>
             /\ last'.err = "NameError"
             /\ last'.sent = 0 /\ last'.searchCalls = 0
             /\ UNCHANGED <<queries, condLists, colLists, msLists>>]_vars

\* q.filter(price__foo=1)[0:1] raised NameError
C19_Witness ==
    /\ last.op = "getitem"
    /\ last.k = SliceKey(Some(0), Some(1))
    /\ Len(condLists[queries[last.src].conditions]) = 1
    /\ condLists[queries[last.src].conditions][1].lookup = <<"foo">>
    /\ last.err = "NameError"
    /\ last.sent = 0

\* C20: columns() and columns('*') return a Query with no projection, whose
\* evaluation sends no get argument and fetches the full records.
C20_NoProjection ==
    /\ (last.op = "columns" /\ last.names \in {<<>>, <<"*">>}) =>
          /\ last.err = ""
          /\ queries[last.res].columns = None
    /\ (last.op = "getitem" /\ last.err = "" /\ last.k.slice
        /\ (queries[last.src].columns = None
            \/ colLists[Val(queries[last.src].columns)] = <<"*">>)) =>
          /\ \A i \in 1..Len(last.args) : last.args[i][1] /= "get"
          /\ last.sent = 2

\* C21: columns(n1, ..., nk) with k >= 1 names other than '*' returns a Query
\* whose projection is exactly the list n1, ..., nk, each name once and in the
\* given order, and leaves the projection of the receiver as it was; a Query
\* with a projection sends one get argument that lists the projection.
C21_ExactProjection ==
    [][/\ (last'.op = "columns" /\ Len(last'.names) > 0
           /\ "*" \notin Range(last'.names)) =>
             /\ last'.err = ""
             /\ queries'[last'.res].columns /= None
             /\ colLists'[Val(queries'[last'.res].columns)] = last'.names
             /\ QueryView(queries'[last'.src], Heap')
                   = QueryView(queries[last'.src], Heap)
       /\ (last'.op = "getitem" /\ last'.err = ""
           /\ TruthyColList(Heap, queries[last'.src].columns)) =>
             /\ Cardinality({i \in 1..Len(last'.args) : last'.args[i][1] = "get"}) = 1
             /\ \A i \in 1..Len(last'.args) :
                   last'.args[i][1] = "get" =>
                       Tail(last'.args[i]) = colLists[Val(queries[last'.src].columns)]]_vars

\* the setorder arguments among args
SetOrders(args) == {i \in 1..Len(args) : args[i][1] = "setorder"}

\* the order type the protocol defines for a direction and a numeric flag
OrderTypeFor(descending, numeric) ==
    IF numeric THEN (IF descending THEN 3 ELSE 2) ELSE (IF descending THEN 1 ELSE 0)

C23_QuickDelete ==
    (last.op = "delete" /\ last.err = "") =>
        /\ \E i \in 1..Len(last.args) : last.args[i] = <<"out">>
        /\ IF last.quick
           THEN last.ret = None /\ last.searchCalls = 1 /\ last.sent = 1
           ELSE last.ret \in {Some(TRUE), Some(FALSE)} /\ last.searchCalls = 2
                /\ last.sent = 2

\* the setorder arguments that evaluating the whole of q sends
SetOrderSent(q, H) ==
    {FullSearch(q, H).args[i] : i \in SetOrders(FullSearch(q, H).args)}

\* C28: a Query derived by filter, exclude, columns, union, intersect or minus
\* keeps the ordering of the Query it is derived from, and its evaluation
\* sends the same setorder argument.
C28_OrderingSurvives ==
    [][(last'.op \in BuilderOps \ {"order_by"} /\ last'.err = "") =>
           /\ queries'[last'.res].ordering = queries[last'.src].ordering
           /\ (Evaluable(queries[last'.src], Heap)
               /\ Evaluable(queries'[last'.res], Heap')) =>
                  SetOrderSent(queries'[last'.res], Heap')
                     = SetOrderSent(queries[last'.src], Heap)]_vars

\* C29: an evaluated slice q[a:b] with a stop bound sends a setlimit argument
\* whose maximum is b - a (a missing start counts as 0), so that the server
\* returns at most b - a items, none for q[:0] and q[0:0].
C29_StopBounds ==
    (last.op = "getitem" /\ last.k.slice /\ last.k.stop /= None /\ last.err = "") =>
        SetLimit(Val(last.k.stop) - (IF last.k.start = None THEN 0 ELSE Val(last.k.start)),
                 IF last.k.start = None THEN 0 ELSE Val(last.k.start))
            \in Range(last.args)

\* what a loop over a Query with it.n matches has done when it is over: it
\* ended by IndexError exactly when the conditions of the Query and of its
\* metasearch branches compile (otherwise the first q[0] raised before any
\* request was made), and then it yielded
\* the it.n matches, each once and in the order of the server, after it.n + 1
\* search requests
IterationExact ==
    /\ it.pc = "done" =>
          /\ Evaluable(queries[it.src], Heap)
          /\ it.items = [j \in 1..it.n |-> j]
          /\ it.searches = it.n + 1
          /\ it.i = it.n
    /\ it.pc = "raised" =>
          /\ ~Evaluable(queries[it.src], Heap)
          /\ it.err /= "" /\ it.items = <<>>
          /\ it.searches = 0 /\ it.sent = 0
    /\ it.pc = "loop" =>
          /\ it.i <= it.n
          /\ it.items = [j \in 1..it.i |-> j]
          /\ it.searches = it.i

\* C30: iterating a Query, which indexes q[0], q[1], ... in turn, terminates:
\* q[i] raises IndexError when the search at offset i returns no key, so a
\* loop over a Query with N matches yields exactly the N matches, each once,
\* after N + 1 search requests.
C30_IterationTerminates ==
    /\ []IterationExact
    /\ (it.pc = "loop") ~> (it.pc \in {"done", "raised"})

\* a loop over a derived Query with three matches is over
C30_Witness ==
    /\ it.pc = "done" /\ it.n = 3 /\ it.src = 2
    /\ it.items = <<1, 2, 3>>
    /\ it.searches = 4

\* C24 as stated: a string pair is decoded as a 4-byte length followed by
\* that many bytes, then a second 4-byte length followed by that many bytes.
C24_LengthThenString ==
    call.fn = "get_strpair" =>
        /\ call.out.err = GetStrpairInterleaved(call.stream).err
        /\ call.out.err = "" => call.out.data = GetStrpairInterleaved(call.stream).data

\* C24: a string pair is decoded as two 4-byte big-endian lengths followed by
\* the two strings: the length of the first, the length of the second, then
\* the bytes of the first and the bytes of the second.  Decoding such a pair
\* consumes exactly 8 + len1 + len2 bytes and returns the two strings in
\* stream order; it raises when the stream ends before that.
C24_StrPair ==
    (call.fn = "get_strpair" /\ call.first) =>
        IF call.whole
        THEN /\ call.out.err = ""
             /\ call.out.data = <<call.key, call.value>>
             /\ call.out.reads = 8 + Len(call.key) + Len(call.value)
             /\ call.out.rest
                   = SubSeq(call.stream, 9 + Len(call.key) + Len(call.value),
                            Len(call.stream))
        ELSE call.out.err = "socket.error"

\* a pair of a key of one byte and a value of two bytes, followed by one more
\* byte, was decoded
C24_Witness ==
    /\ call.fn = "get_strpair" /\ call.first
    /\ call.stream = <<0, 0, 0, 1, 0, 0, 0, 2, 11, 21, 22, 9>>
    /\ call.out.err = ""
    /\ call.out.data = <<(<<11>>), (<<21, 22>>)>>
    /\ call.out.reads = 11
    /\ call.out.rest = <<9>>

\* C25: adddouble writes its number as two unsigned 64-bit big-endian values,
\* the integer part and round(fractional part * 1e12); get_double decodes the
\* pair as intpart + fracpart * 1e-12, which is the number within 1e-12.
C25_RoundedFraction ==
    call.fn = "adddouble" =>
        /\ Len(call.written) = 2 + 4 + 8 + 8 + 1
        /\ SubSeq(call.written, 7, 14) = BE(call.num.int, 8)
        /\ SubSeq(call.written, 15, 22) = BE(RoundFrac(Modf(call.num).fracpart), 8)
        /\ call.out.err = ""
        /\ call.out.data.intpart = call.num.int
        /\ call.out.data.fracpart \in {call.num.frac, call.num.frac + 1}

\* the records of a sequence of putlist calls, in the order they were stored
RECURSIVE Records(_)
Records(calls) ==
    IF Len(calls) = 0 THEN <<>> ELSE calls[1] \o Records(Tail(calls))

\* C26: multi_add(values, chunk_size) stores every value exactly once under
\* a freshly generated key and returns the keys in the order of the values;
\* no putlist call carries more than chunk_size records when chunk_size > 0,
\* and all records go in one call when chunk_size is 0.
C26_Chunks ==
    call.fn = "multi_add" =>
        /\ Len(call.keys) = Len(call.values)
        /\ \A i, j \in 1..Len(call.keys) : i /= j => call.keys[i] /= call.keys[j]
        /\ Records(call.calls)
              = [i \in 1..Len(call.values) |->
                    [key |-> call.keys[i], value |-> call.values[i]]]
        /\ call.chunk_size > 0 =>
              \A c \in 1..Len(call.calls) : Len(call.calls[c]) <= call.chunk_size
        /\ call.chunk_size = 0 => Len(call.calls) = 1

\* the number of bytes of the length-prefixed strings l
RECURSIVE PrefixedLen(_)
PrefixedLen(l) == IF Len(l) = 0 THEN 0 ELSE 4 + Len(l[1]) + PrefixedLen(Tail(l))

\* the number of bytes the server sent in answer to the command c: nothing
\* for putnr; the status byte; after a status of 0 the payload, a string for
\* get and iternext; for misc the count, whatever the status, and the
\* elements
ResponseLen(c) ==
    IF c.op = "putnr" THEN 0
    ELSE IF c.op = "misc"
    THEN 5 + (IF c.status = Some(0) THEN PrefixedLen(Val(c.ret)) ELSE 0)
    ELSE IF c.status /= Some(0) THEN 1
    ELSE IF c.op \in {"get", "iternext"} THEN 5 + Len(Val(c.ret))
    ELSE 1

\* C27: every command reads exactly its own response: when it returns or
\* raises for a status other than 0 it has consumed the bytes the server sent
\* for its request (the status byte alone on error; for misc the status byte
\* and the 4-byte count even on error; nothing for putnr) and no byte is left
\* unread, so that the status a command acts on is the one of its own
\* response.
C27_ExactResponse ==
    /\ inbuf = <<>>
    /\ cmd.op /= "none" =>
          /\ cmd.reads = ResponseLen(cmd)
          /\ cmd.sync => (cmd.err = "" <=> cmd.status = Some(0))
          /\ (cmd.sync /\ cmd.status /= Some(0)) =>
                cmd.reads = (IF cmd.op = "misc" THEN 5 ELSE 1)
          /\ ~cmd.sync => cmd.reads = 0

\* a refused misc raised after the status byte and the count
C27_Witness ==
    /\ cmd.op = "misc"
    /\ cmd.status = Some(1)
    /\ cmd.err = "InvalidOperation"
    /\ cmd.sendReads = 1
    /\ cmd.reads = 5
    /\ inbuf = <<>>

====
